---- MODULE Spec2Model ----
(***************************************************************************)
(* A model of the cmds compatibility layer (scripts/blender/utils/cmds.py) *)
(* and of core/libs/types.py: the attribute-name resolution, the           *)
(* object/attribute parsing, the keyword-alias resolution, the constraint  *)
(* commands, the key copy buffer and the batch thread pool.                *)
(*                                                                         *)
(* Python values are records [t |-> type, v |-> payload].  A string is a   *)
(* sequence of one-character strings, so that slicing, splitting and the   *)
(* regular expressions of the source are computed character by character.  *)
(***************************************************************************)
EXTENDS Integers, Sequences, FiniteSets, TLC

(***************************************************************************)
(* Python values                                                           *)
(***************************************************************************)
NoneV == [t |-> "None", v |-> <<>>]
StrV(s) == [t |-> "str", v |-> s]
NumV(n) == [t |-> "num", v |-> n]
BoolV(b) == [t |-> "bool", v |-> b]
ListV(xs) == [t |-> "list", v |-> xs]
DictV(k, x) == [t |-> "dict", v |-> <<k, x>>]
ObjV(name) == [t |-> "obj", v |-> name]

\* Python truth value of a value (bool(x)): None, False, 0, '' and empty
\* containers are false.
Truthy(x) ==
  CASE x.t = "None" -> FALSE
    [] x.t = "bool" -> x.v
    [] x.t = "num" -> x.v # 0
    [] x.t = "str" -> Len(x.v) > 0
    [] x.t = "list" -> Len(x.v) > 0
    [] x.t = "dict" -> Len(x.v) > 0
    [] OTHER -> TRUE

\* The outcome of a call: a returned value or a raised exception.
Ok(x) == [k |-> "ok", val |-> x]
Raise(e) == [k |-> e, val |-> NoneV]
\* No call yet.
Unset == [k |-> "unset", val |-> NoneV]

(***************************************************************************)
(* State                                                                   *)
(***************************************************************************)
VARIABLES
  \* a call of resolveAttributeName, getAttributeIndex or parseObjectAttribute
  nmObject,      \* the object argument of the call
  nmAttribute,   \* the attribute argument of the call
  nmRev,         \* the iteration order of the conversion table
  nmOp,          \* the function that was called, "none" before the call
  nmOut,         \* its outcome
  nmOut2,        \* the outcome of resolving the result once more
  \* a call of parseArgs
  paLong,        \* the value passed under the long name
  paShort,       \* the value passed under the short name
  paDefault,     \* the default of the pair
  paOut,         \* the effective value, Unset before the call
  \* a call of a constraint command
  conCall,       \* the command that was called and its name/weight arguments
  conMade,       \* the constraints the call has added to the source object
  conOut,        \* the outcome of the call
  \* a call of batch(items, function, batchSize=, threads=)
  batItems,      \* the items argument
  batSize,       \* the batchSize argument
  batFunction,   \* which function is passed
  batThreads,    \* the BatchedThread objects: position, data, result, isAlive
  batQueue,      \* the Queue: the (index, batch) tuples not yet taken
  batUnfinished, \* the Queue's count of unfinished tasks
  batMain,       \* the position of the calling thread inside batch
  batNext,       \* the caller's loop counter (batch to put, thread to merge)
  batThreadData, \* the caller's threadData dictionary
  batCalls,      \* how often function has been called for each batch index
  batOut,        \* the outcome of batch, Unset until it returns
  \* the animation of the scene and the key copy buffer
  kyAnim,        \* the object's animation_data: "none", "noaction" or "action"
  kyPoints,      \* the keyframe points of every animation curve of the action
  COPY_KEY_BUFFER, \* the module's global key buffer
  kyCall,        \* the last call of copyKey, cutKey, pasteKey or bakeSimulation
  kyBefore,      \* the points and the buffer as they were before that call
  kyCount,       \* how many calls have been made
  \* the selection of the scene
  slMode,        \* the mode Blender is in: "OBJECT" or "EDIT"
  slSelected,    \* the objects whose select flag is set
  slActive,      \* scene.objects.active
  slCall,        \* the last call of select: its objects and its flag
  slBefore,      \* the selection as it was before that call
  \* the settings of the active scene
  scScene,       \* bpy.context.scene: camera, frame range, render settings
  scRendered,    \* the settings bpy.ops.render.opengl ran with, None before
  scCall,        \* the last call of playblast or playbackOptions
  scBefore,      \* the scene as it was before that call
  scOut,         \* the outcome of that call
  scCount,       \* how many calls have been made
  \* the items of an item model (AbstractBaseMixin)
  trPython,      \* the major version of the interpreter: 2 or 3
  trParent,      \* __parent of every item
  trChildren,    \* __children of every item
  trMove,        \* _internalMove of every item
  trCall,        \* the last call of setParent, addChild or removeChild
  trBefore,      \* the parents and the children before that call
  trOut,         \* the outcome of that call
  trCount        \* how many calls have been made

nameVars == <<nmObject, nmAttribute, nmRev, nmOp, nmOut, nmOut2>>
argVars == <<paLong, paShort, paDefault, paOut>>
conVars == <<conCall, conMade, conOut>>
batArgs == <<batItems, batSize, batFunction>>
batVars == <<batArgs, batThreads, batQueue, batUnfinished, batMain, batNext,
             batThreadData, batCalls, batOut>>
keyVars == <<kyAnim, kyPoints, COPY_KEY_BUFFER, kyCall, kyBefore, kyCount>>
selVars == <<slMode, slSelected, slActive, slCall, slBefore>>
\* the variables of the commands that act on the scene's selection
scnVars == <<scScene, scRendered, scCall, scBefore, scOut, scCount>>
treeVars == <<trPython, trParent, trChildren, trMove, trCall, trBefore, trOut, trCount>>
restVars == <<selVars, scnVars, treeVars>>
oldVars == <<nameVars, argVars, conVars, batVars, keyVars>>
vars == <<oldVars, restVars>>
notNames == <<argVars, conVars, batVars, keyVars, restVars>>
notArgs == <<nameVars, conVars, batVars, keyVars, restVars>>
notCon == <<nameVars, argVars, batVars, keyVars, restVars>>
notBat == <<nameVars, argVars, conVars, keyVars, restVars>>
notKeys == <<nameVars, argVars, conVars, batVars, restVars>>
notSel == <<oldVars, scnVars, treeVars>>
notScn == <<oldVars, selVars, treeVars>>
notTree == <<oldVars, selVars, scnVars>>

(***************************************************************************)
(* core/libs/types.py                                                      *)
(***************************************************************************)
RECURSIVE FirstNotNone(_)
FirstNotNone(args) ==
  IF args = <<>> THEN <<>>
  ELSE IF Head(args) # NoneV THEN <<Head(args)>>
  ELSE FirstNotNone(Tail(args))

\* A keyword-alias resolution that skips every false value, not only None.
RECURSIVE FirstTruthy(_)
FirstTruthy(args) ==
  IF args = <<>> THEN <<>>
  ELSE IF Truthy(Head(args)) THEN <<Head(args)>>
  ELSE FirstTruthy(Tail(args))

parseArgsFalsy(args, kwargs) ==
  IF FirstTruthy(args) # <<>> THEN FirstTruthy(args)[1]
  ELSE IF kwargs # <<>> THEN kwargs[1]
  ELSE NoneV

\* parseArgs(*args, **kwargs): the first positional argument that is not
\* None, else kwargs["default"] when given, else None.  kwargs is <<>> or
\* <<default>>.
parseArgs(args, kwargs) ==
  IF FirstNotNone(args) # <<>> THEN FirstNotNone(args)[1]
  ELSE IF kwargs # <<>> THEN kwargs[1]
  ELSE NoneV

\* asList(items): lists and tuples are copied, a dict gives its values,
\* anything else is wrapped.
asList(x) ==
  CASE x.t = "list" -> x.v
    [] x.t = "dict" -> IF x.v = <<>> THEN <<>> ELSE <<x.v[2]>>
    [] OTHER -> <<x>>

\* fi(items): the first item of asList(items), or None.
fi(x) == IF asList(x) = <<>> THEN NoneV ELSE asList(x)[1]

(***************************************************************************)
(* Text                                                                    *)
(***************************************************************************)
Lower == {"a","b","c","d","e","f","g","h","i","j","k","l","m",
          "n","o","p","q","r","s","t","u","v","w","x","y","z"}
Upper == {"A","B","C","D","E","F","G","H","I","J","K","L","M",
          "N","O","P","Q","R","S","T","U","V","W","X","Y","Z"}
Digits == {"0","1","2","3","4","5","6","7","8","9"}

\* reAttribute = re.compile('[^A-Za-z0-9\-_]+'): the characters it keeps.
IsAttrChar(c) == c \in Lower \cup Upper \cup Digits \cup {"-", "_"}
reAttributeSub(s) == SelectSeq(s, IsAttrChar)

Contains(s, c) == \E i \in 1..Len(s) : s[i] = c
LastIndexOf(s, c) == CHOOSE i \in 1..Len(s) : s[i] = c /\ \A j \in (i+1)..Len(s) : s[j] # c
\* s.rsplit(c, 1) for a string that contains c.
RSplitHead(s, c) == SubSeq(s, 1, LastIndexOf(s, c) - 1)
RSplitTail(s, c) == SubSeq(s, LastIndexOf(s, c) + 1, Len(s))
StartsWith(s, p) == Len(s) >= Len(p) /\ SubSeq(s, 1, Len(p)) = p

DigitValue(c) ==
  CASE c = "0" -> 0 [] c = "1" -> 1 [] c = "2" -> 2 [] c = "3" -> 3 [] c = "4" -> 4
    [] c = "5" -> 5 [] c = "6" -> 6 [] c = "7" -> 7 [] c = "8" -> 8 [] c = "9" -> 9
RECURSIVE IntOf(_)
IntOf(ds) == IF ds = <<>> THEN 0 ELSE 10 * IntOf(SubSeq(ds, 1, Len(ds) - 1)) + DigitValue(ds[Len(ds)])

(***************************************************************************)
(* CONSTANTS of cmds.py                                                    *)
(***************************************************************************)
attributeConversion ==
  << << <<"l","o","c","a","t","i","o","n","X">>,
        << <<"t","r","a","n","s","l","a","t","e","X">>,
           <<"t","r","a","n","s","l","a","t","i","o","n","X">>,
           <<"p","o","s","i","t","i","o","n","X">>,
           <<"t","x">>,
           <<"l","x">> >> >>,
     << <<"l","o","c","a","t","i","o","n","Y">>,
        << <<"t","r","a","n","s","l","a","t","e","Y">>,
           <<"t","r","a","n","s","l","a","t","i","o","n","Y">>,
           <<"p","o","s","i","t","i","o","n","Y">>,
           <<"t","y">>,
           <<"l","y">> >> >>,
     << <<"l","o","c","a","t","i","o","n","Z">>,
        << <<"t","r","a","n","s","l","a","t","e","Z">>,
           <<"t","r","a","n","s","l","a","t","i","o","n","Z">>,
           <<"p","o","s","i","t","i","o","n","Z">>,
           <<"t","z">>,
           <<"l","z">> >> >>,
     << <<"r","o","t","a","t","i","o","n","X">>,
        << <<"r","o","t","a","t","e","X">>,
           <<"r","x">>,
           <<"r","o","t","a","t","i","o","n","_","e","u","l","e","r","X">> >> >>,
     << <<"r","o","t","a","t","i","o","n","Y">>,
        << <<"r","o","t","a","t","e","Y">>,
           <<"r","y">>,
           <<"r","o","t","a","t","i","o","n","_","e","u","l","e","r","Y">> >> >>,
     << <<"r","o","t","a","t","i","o","n","Z">>,
        << <<"r","o","t","a","t","e","Z">>,
           <<"r","z">>,
           <<"r","o","t","a","t","i","o","n","_","e","u","l","e","r","Z">> >> >>,
     << <<"s","c","a","l","e","X">>,
        << <<"s","x">> >> >>,
     << <<"s","c","a","l","e","Y">>,
        << <<"s","y">> >> >>,
     << <<"s","c","a","l","e","Z">>,
        << <<"s","z">> >> >>,
     << <<"l","o","c","a","t","i","o","n">>,
        << <<"t","r","a","n","s","l","a","t","i","o","n">>,
           <<"p","o","s","i","t","i","o","n">>,
           <<"t">>,
           <<"l">> >> >>,
     << <<"r","o","t","a","t","i","o","n">>,
        << <<"r","o","t","a","t","e">>,
           <<"r">>,
           <<"r","o","t","a","t","i","o","n","_","e","u","l","e","r">> >> >>,
     << <<"s","c","a","l","e">>,
        << <<"s">> >> >>,
     << <<"h","i","d","e">>,
        << <<"v","i","s","i","b","i","l","i","t","y">>,
           <<"v">>,
           <<"h">> >> >>,
     << <<"m","a","t","r","i","x","_","l","o","c","a","l">>,
        << <<"m">>,
           <<"m","a","t","r","i","x">>,
           <<"l","o","c","a","l","M","a","t","r","i","x">> >> >>,
     << <<"m","a","t","r","i","x","_","w","o","r","l","d">>,
        << <<"w","m">>,
           <<"w","o","r","l","d","M","a","t","r","i","x">> >> >>,
     << <<"m","a","t","r","i","x","_","p","a","r","e","n","t","_","i","n","v","e","r","s","e">>,
        << <<"i","n","v","e","r","s","e","M","a","t","r","i","x">> >> >> >>

ConversionKeys == {attributeConversion[i][1] : i \in 1..Len(attributeConversion)}
ConversionValues(key) ==
  LET i == CHOOSE j \in 1..Len(attributeConversion) : attributeConversion[j][1] = key
  IN {attributeConversion[i][2][n] : n \in 1..Len(attributeConversion[i][2])}
AllAliases == UNION {ConversionValues(key) : key \in ConversionKeys}

\* transformAttributes = attributeConversion.keys(): a live view in Python 3,
\* so it names every key of the table.
transformAttributes == ConversionKeys

\* attributeIndices = dict(X=0, Y=1, Z=2, W=3, R=0, G=1, B=2, A=3)
attributeIndices ==
  [c \in {"X","Y","Z","W","R","G","B","A"} |->
     CASE c \in {"X","R"} -> 0 [] c \in {"Y","G"} -> 1
       [] c \in {"Z","B"} -> 2 [] c \in {"W","A"} -> 3]
attributeIndicesInverse == <<"X", "Y", "Z", "W">>

(***************************************************************************)
(* The host scene: the data-blocks asObject can find by name, and the      *)
(* custom properties (object.keys()) of each.                              *)
(***************************************************************************)
CubeName == <<"c","u","b","e">>
SceneNames == {CubeName}
CustomProp == <<"m","y"," ","p","r","o","p">>
ObjectKeys(object) ==
  CASE object.t = "obj" -> IF object.v = CubeName THEN {StrV(CustomProp)} ELSE {}
    [] object.t = "dict" -> IF object.v = <<>> THEN {} ELSE {object.v[1]}
    [] OTHER -> {}
\* Whether the value has a keys() method.
HasKeys(object) == object.t \in {"obj", "dict"}

\* asObject(obj): the first element of a list or tuple, the first value of a
\* dict; None for a false value; anything that is not a string is returned
\* as it is; a string is looked up by name in bpy.data.
asObject(obj) ==
  LET o1 == IF obj.t = "list" THEN fi(obj) ELSE obj
      o2 == IF o1.t = "dict" THEN fi(o1) ELSE o1
  IN IF ~Truthy(o2) THEN NoneV
     ELSE IF o2.t # "str" THEN o2
     ELSE IF o2.v \in SceneNames THEN ObjV(o2.v)
     ELSE NoneV

(***************************************************************************)
(* resolveAttributeName                                                    *)
(***************************************************************************)
\* re.findall('([A-Za-z0-9_\-\.]*)\[([0-9]*)\]', s)[0]: the leftmost match,
\* as <<group 1, group 2>>, or <<>> when there is none.
IsPathChar(c) == IsAttrChar(c) \/ c = "."
IndexMatchAt(s, a, j, k) ==
  /\ a <= j /\ j < k /\ k <= Len(s)
  /\ \A i \in a..(j-1) : IsPathChar(s[i])
  /\ s[j] = "["
  /\ \A i \in (j+1)..(k-1) : s[i] \in Digits
  /\ s[k] = "]"
HasIndexMatch(s) ==
  /\ Contains(s, "[") /\ Contains(s, "]")
  /\ \E a, j, k \in 1..Len(s) : IndexMatchAt(s, a, j, k)
listIndexMatch(s) ==
  IF ~HasIndexMatch(s) THEN <<>>
  ELSE LET a == CHOOSE x \in 1..Len(s) :
                  /\ \E j, k \in 1..Len(s) : IndexMatchAt(s, x, j, k)
                  /\ \A y \in 1..(x-1) : ~\E j, k \in 1..Len(s) : IndexMatchAt(s, y, j, k)
           jk == CHOOSE p \in (1..Len(s)) \X (1..Len(s)) : IndexMatchAt(s, a, p[1], p[2])
       IN <<SubSeq(s, a, jk[1] - 1), SubSeq(s, jk[1] + 1, jk[2] - 1)>>

\* for key, values in attributeConversion.items(): if attribute in values:
\* return key.  The table is walked in insertion order, or in the reverse
\* order when rev (a dict has no order before Python 3.7).
ConversionOrder(rev) ==
  IF rev THEN [i \in 1..Len(attributeConversion) |->
                 attributeConversion[Len(attributeConversion) + 1 - i]]
  ELSE attributeConversion
InValues(name, entry) == \E n \in 1..Len(entry[2]) : entry[2][n] = name
\* A lookup that tests the key instead of its aliases.
convertAttributeKeysOnly(name, rev) == name
convertAttribute(name, rev) ==
  LET table == ConversionOrder(rev)
      hits == {i \in 1..Len(table) : InValues(name, table[i])}
  IN IF hits = {} THEN name
     ELSE table[CHOOSE i \in hits : \A j \in hits : i <= j][1]

RECURSIVE resolveAttributeName(_, _, _)
RECURSIVE resolveEach(_, _, _)
\* results = [resolveAttributeName(attr, object) for attr in attribute]
resolveEach(attrs, object, rev) ==
  IF attrs = <<>> THEN Ok(ListV(<<>>))
  ELSE LET h == resolveAttributeName(Head(attrs), object, rev)
       IN IF h.k # "ok" THEN h
          ELSE LET r == resolveEach(Tail(attrs), object, rev)
               IN IF r.k # "ok" THEN r ELSE Ok(ListV(<<h.val>> \o r.val.v))

resolveAttributeName(attribute, object, rev) ==
  IF ~Truthy(attribute) THEN Ok(NoneV)
  ELSE
    LET split == object = NoneV /\ attribute.t = "str" /\ Contains(attribute.v, ".")
        object1 == IF split THEN StrV(RSplitHead(attribute.v, ".")) ELSE object
        attribute1 == IF split THEN StrV(RSplitTail(attribute.v, ".")) ELSE attribute
        object2 == asObject(object1)
        unpack == object2 = NoneV /\ attribute1.t = "list"
    IN IF unpack /\ Len(attribute1.v) # 2 THEN Raise("RuntimeError")
       ELSE
         LET object3 == IF unpack THEN attribute1.v[1] ELSE object2
             attribute3 == IF unpack THEN attribute1.v[2] ELSE attribute1
         IN IF attribute3.t = "list" THEN resolveEach(attribute3.v, object3, rev)
            ELSE IF Truthy(object3) /\ ~HasKeys(object3) THEN Raise("AttributeError")
            ELSE IF Truthy(object3) /\ attribute3 \in ObjectKeys(object3) THEN Ok(attribute3)
            ELSE IF attribute3.t # "str" THEN Raise("TypeError")
            ELSE
              LET m == listIndexMatch(attribute3.v)
              IN IF m # <<>>
                 THEN IF m[2] = <<>> THEN Raise("ValueError")
                      ELSE IF IntOf(m[2]) >= Len(attributeIndicesInverse)
                           THEN Raise("IndexError")
                      ELSE Ok(StrV(convertAttribute(
                             m[1] \o <<attributeIndicesInverse[IntOf(m[2]) + 1]>>, rev)))
                 ELSE Ok(StrV(convertAttribute(reAttributeSub(attribute3.v), rev)))

(***************************************************************************)
(* getAttributeIndex                                                       *)
(***************************************************************************)
Rotation == <<"r","o","t","a","t","i","o","n">>
RotationEuler == <<"r","o","t","a","t","i","o","n","_","e","u","l","e","r">>
\* s.replace(old, new): every occurrence, left to right.
RECURSIVE Replace(_, _, _)
Replace(s, old, new) ==
  IF Len(s) < Len(old) THEN s
  ELSE IF StartsWith(s, old) THEN new \o Replace(SubSeq(s, Len(old) + 1, Len(s)), old, new)
  ELSE <<Head(s)>> \o Replace(Tail(s), old, new)

TupleV(a, b) == ListV(<<a, b>>)

\* getAttributeIndex after attribute = resolveAttributeName(attribute): s is
\* the resolved name.
splitChannel(s) ==
  IF s = <<>> THEN Raise("IndexError")
  ELSE IF s[Len(s)] \in DOMAIN attributeIndices
  THEN Ok(TupleV(StrV(SubSeq(s, 1, Len(s) - 1)), NumV(attributeIndices[s[Len(s)]])))
  ELSE Ok(TupleV(StrV(s), NoneV))

\* if re.match('rotation[XYZW]', attribute): attribute.replace('rotation', 'rotation_euler')
eulerName(s) ==
  IF Len(s) > Len(Rotation) /\ StartsWith(s, Rotation)
     /\ s[Len(Rotation) + 1] \in {"X", "Y", "Z", "W"}
  THEN Replace(s, Rotation, RotationEuler) ELSE s

indexOfResolved(r) ==
  IF r.k # "ok" THEN r
  ELSE IF r.val.t # "str" THEN Raise("TypeError")
  ELSE splitChannel(eulerName(r.val.v))

getAttributeIndex(attribute, rev) ==
  IF attribute.t # "str" THEN Raise("RuntimeError")
  ELSE indexOfResolved(resolveAttributeName(attribute, NoneV, rev))

(***************************************************************************)
(* parseObjectAttribute                                                    *)
(***************************************************************************)
\* return (node, attribute) with attribute = resolveAttributeName(attribute, node)
nodeAndAttribute(node, r) == IF r.k # "ok" THEN r ELSE Ok(TupleV(node, r.val))
resolveOn(node, attribute, rev) ==
  nodeAndAttribute(node, resolveAttributeName(attribute, node, rev))

\* o, a = object.rsplit('.', 1); the pair is taken unless a starts with a digit
splitObjectAttribute(object, attribute, o, a, rev) ==
  IF ~(a # <<>> /\ a[1] \in Digits)
  THEN resolveOn(asObject(StrV(o)), StrV(a), rev)
  ELSE resolveOn(asObject(object), attribute, rev)

RECURSIVE parseObjectAttribute(_, _, _)
parseObjectAttribute(object, attribute, rev) ==
  IF ~Truthy(object) /\ ~Truthy(attribute) THEN Raise("RuntimeError")
  ELSE IF Truthy(attribute) THEN resolveOn(asObject(object), attribute, rev)
  ELSE IF object.t = "str" THEN
    IF ~Contains(object.v, ".") THEN Ok(TupleV(NoneV, NoneV))
    ELSE splitObjectAttribute(object, attribute, RSplitHead(object.v, "."),
                              RSplitTail(object.v, "."), rev)
  ELSE IF object.t = "list" THEN
    IF Len(object.v) # 2 THEN Raise("RuntimeError")
    ELSE parseObjectAttribute(object.v[1], object.v[2], rev)
  ELSE IF object.t = "dict" THEN
    IF object.v = <<>> \/ ~Truthy(object.v[1]) THEN Ok(TupleV(NoneV, NoneV))
    ELSE parseObjectAttribute(object.v[1], object.v[2], rev)
  ELSE Raise("RuntimeError")

(***************************************************************************)
(* Names used as inputs                                                    *)
(***************************************************************************)
TranslateX == <<"t","r","a","n","s","l","a","t","e","X">>
Translate == <<"t","r","a","n","s","l","a","t","e">>
ColorG == <<"c","o","l","o","r","G">>
Color == <<"c","o","l","o","r">>
Prop == <<"p","r","o","p">>
LocationX == <<"l","o","c","a","t","i","o","n","X">>
LocationY == <<"l","o","c","a","t","i","o","n","Y">>
Location == <<"l","o","c","a","t","i","o","n">>
ScaleX == <<"s","c","a","l","e","X">>
ScaleY == <<"s","c","a","l","e","Y">>
ScaleZ == <<"s","c","a","l","e","Z">>
Scale == <<"s","c","a","l","e">>
RotationX == <<"r","o","t","a","t","i","o","n","X">>
RotationY == <<"r","o","t","a","t","i","o","n","Y">>
Ry == <<"r","y">>
Tx == <<"t","x">>
Ty == <<"t","y">>
LocationIdx1 == <<"l","o","c","a","t","i","o","n","[","1","]">>
TIdx0 == <<"t","[","0","]">>
LocationIdx7 == <<"l","o","c","a","t","i","o","n","[","7","]">>
LocationIdxNone == <<"l","o","c","a","t","i","o","n","[","]">>
CubeTx == <<"c","u","b","e",".","t","x">>
CubeProp == <<"c","u","b","e",".","m","y"," ","p","r","o","p">>
CubeLocationIdx7 == <<"c","u","b","e",".","l","o","c","a","t","i","o","n","[","7","]">>
CubeDot0 == <<"c","u","b","e",".","0">>
Ghost == <<"g","h","o","s","t">>

\* The longest generated name, and the characters it is made of.
MaxNameLen == 3
NameAlphabet == {"t", "X", "[", "0", "]", "."}
GeneratedNames == UNION {[1..n -> NameAlphabet] : n \in 0..MaxNameLen}
ExampleNames ==
  {TranslateX, ColorG, Prop, CustomProp, LocationIdx1, TIdx0, LocationIdx7,
   LocationIdxNone, CubeTx, CubeProp, CubeLocationIdx7, CubeDot0, Ghost, CubeName,
   RotationX \o Rotation, <<" ">>, <<"t", " ">>}
NameStrings == GeneratedNames \cup ExampleNames \cup AllAliases \cup ConversionKeys

\* The attribute arguments and the object arguments of the calls.
AttributeInputs ==
  {StrV(s) : s \in NameStrings}
    \cup {NoneV, NumV(5), ListV(<<StrV(Tx), StrV(Ty)>>), ListV(<<StrV(Tx)>>)}
ObjectInputs ==
  {NoneV, ObjV(CubeName), StrV(CubeName), StrV(Ghost), StrV(CubeTx), StrV(CubeDot0),
   StrV(CubeLocationIdx7), NumV(5), ListV(<<>>),
   ListV(<<ObjV(CubeName), StrV(Tx)>>), ListV(<<ObjV(CubeName), StrV(LocationIdx7)>>),
   ListV(<<ObjV(CubeName), StrV(Tx), StrV(Ty)>>),
   DictV(ObjV(CubeName), StrV(Ty))}

NamesInit ==
  /\ nmObject \in ObjectInputs
  /\ nmAttribute \in AttributeInputs
  /\ nmRev \in BOOLEAN
  /\ nmOp = "none"
  /\ nmOut = Unset
  /\ nmOut2 = Unset

NamesIdle ==
  /\ nmObject = NoneV /\ nmAttribute = NoneV /\ nmRev = FALSE
  /\ nmOp = "none" /\ nmOut = Unset /\ nmOut2 = Unset

\* resolveAttributeName(attribute, object)
CallResolveAttributeName ==
  /\ nmOp = "none"
  /\ nmObject \in {NoneV, ObjV(CubeName), StrV(CubeName)}
  /\ nmOp' = "resolve"
  /\ nmOut' = resolveAttributeName(nmAttribute, nmObject, nmRev)
  /\ UNCHANGED <<nmObject, nmAttribute, nmRev, nmOut2, notNames>>

\* resolveAttributeName(result) on the result of the first call
CallResolveAgain ==
  /\ nmOp = "resolve" /\ nmOut.k = "ok" /\ nmOut2 = Unset
  /\ nmOut2' = resolveAttributeName(nmOut.val, NoneV, nmRev)
  /\ UNCHANGED <<nmObject, nmAttribute, nmRev, nmOp, nmOut, notNames>>

\* getAttributeIndex(attribute)
CallGetAttributeIndex ==
  /\ nmOp = "none"
  /\ nmObject = NoneV
  /\ nmOp' = "index"
  /\ nmOut' = getAttributeIndex(nmAttribute, nmRev)
  /\ UNCHANGED <<nmObject, nmAttribute, nmRev, nmOut2, notNames>>

\* parseObjectAttribute(object, attribute)
CallParseObjectAttribute ==
  /\ nmOp = "none"
  /\ nmOp' = "parse"
  /\ nmOut' = parseObjectAttribute(nmObject, nmAttribute, nmRev)
  /\ UNCHANGED <<nmObject, nmAttribute, nmRev, nmOut2, notNames>>

NamesNext ==
  \/ CallResolveAttributeName
  \/ CallResolveAgain
  \/ CallGetAttributeIndex
  \/ CallParseObjectAttribute

(***************************************************************************)
(* parseArgs calls                                                         *)
(***************************************************************************)
ArgValues == {NoneV, BoolV(FALSE), BoolV(TRUE), NumV(0), NumV(1), StrV(Tx)}

ArgsInit ==
  /\ paLong \in ArgValues /\ paShort \in ArgValues /\ paDefault \in ArgValues
  /\ paOut = Unset
ArgsIdle == paLong = NoneV /\ paShort = NoneV /\ paDefault = NoneV /\ paOut = Unset

\* value = parseArgs(long, short, default)
CallParseArgs ==
  /\ paOut = Unset
  /\ paOut' = Ok(parseArgs(<<paLong, paShort, paDefault>>, <<>>))
  /\ UNCHANGED <<paLong, paShort, paDefault, notArgs>>

\* value = parseArgs(long, short, default=default)
CallParseArgsKeyword ==
  /\ paOut = Unset
  /\ paOut' = Ok(parseArgs(<<paLong, paShort>>, <<paDefault>>))
  /\ UNCHANGED <<paLong, paShort, paDefault, notArgs>>

(***************************************************************************)
(* Constraints                                                             *)
(***************************************************************************)
LocationZ == <<"l","o","c","a","t","i","o","n","Z">>
RotationZ == <<"r","o","t","a","t","i","o","n","Z">>
ParentWord == <<"p","a","r","e","n","t">>
PointWord == <<"p","o","i","n","t">>
OrientWord == <<"o","r","i","e","n","t">>
TranslationWord == <<"t","r","a","n","s","l","a","t","i","o","n">>
ConName == <<"c","o","n">>

\* CONSTANTS.constraints
constraintTypes(attr) ==
  CASE attr \in {ParentWord} -> "COPY_TRANSFORMS"
    [] attr \in {PointWord, Location, TranslationWord} -> "COPY_LOCATION"
    [] attr \in {OrientWord, Rotation} -> "COPY_ROTATION"
    [] attr \in {Scale} -> "COPY_SCALE"
    [] OTHER -> "none"

\* Influences are counted in tenths: 1.0 is 10.
DefaultInfluence == 10

Perms(S) == {f \in [1..Cardinality(S) -> S] : \A i, j \in 1..Cardinality(S) : f[i] = f[j] => i = j}
SeqToSet(q) == {q[i] : i \in 1..Len(q)}

\* resolveAttributeNames(attrs, transforms=True): the set of the resolved
\* names that are keys of the conversion table; an error of a resolution is
\* passed on.
resolveAttributeNames(attrs, rev) ==
  LET outs == {resolveAttributeName(a, NoneV, rev) : a \in attrs}
      bad == {o \in outs : o.k # "ok"}
  IN IF bad # {} THEN [k |-> (CHOOSE o \in bad : TRUE).k, names |-> {}]
     ELSE [k |-> "ok",
           names |-> {o.val.v : o \in {x \in outs : x.val.t = "str" /\ x.val.v \in transformAttributes}}]

\* resolveAttrs(attrs) of fullConstraint: for every name group m = attr[:-1]
\* the list axis[m]; its first letter is entered twice, so that its length
\* is one more than the number of names of the group.
AxisGroups(names) == {SubSeq(a, 1, Len(a) - 1) : a \in names}
AxisLetters(names, m) == {a[Len(a)] : a \in {x \in names : SubSeq(x, 1, Len(x) - 1) = m}}
AxisLen(names, m) == 1 + Cardinality({x \in names : SubSeq(x, 1, Len(x) - 1) = m})

\* createConstraint + the loop of fullConstraint over skip.items(), in the
\* order `order` of the dict.  The result is the outcome and the constraints
\* added to source.constraints.  name + '_' + attr raises TypeError for a name
\* that is None; the host raises TypeError when influence is given a value
\* that is no number, and the constraint it has created keeps the default.
RECURSIVE createConstraints(_, _, _, _, _, _)
createConstraints(order, names, name, weight, maintainOffset, made) ==
  IF order = <<>> THEN
    IF made = <<>> THEN [out |-> Raise("UnboundLocalError"), made |-> made]
    ELSE [out |-> Ok(ObjV(made[Len(made)].name)), made |-> made]
  ELSE
    LET attr == Head(order)
        type == constraintTypes(attr)
    IN IF AxisLen(names, attr) = 3 \/ type = "none"
       THEN createConstraints(Tail(order), names, name, weight, maintainOffset, made)
       ELSE IF name.t # "str" THEN [out |-> Raise("TypeError"), made |-> made]
       ELSE
         LET new == [type |-> type, influence |-> DefaultInfluence, name |-> <<>>,
                     local |-> FALSE, off |-> {}]
         IN IF weight.t \notin {"num", "bool"}
            THEN [out |-> Raise("TypeError"), made |-> Append(made, new)]
            ELSE createConstraints(Tail(order), names, name, weight, maintainOffset,
                   Append(made,
                     [type |-> type,
                      influence |-> IF weight.t = "bool"
                                    THEN (IF weight.v THEN DefaultInfluence ELSE 0)
                                    ELSE weight.v,
                      name |-> name.v \o <<"_">> \o attr,
                      local |-> Truthy(maintainOffset),
                      off |-> {c \in AxisLetters(names, attr) : c \in {"X", "Y", "Z"}}]))

\* The weight of fullConstraint with the short alias of weight read.
fullConstraintWeightW(weight, w, n) == parseArgs(<<weight, w, NumV(DefaultInfluence)>>, <<>>)
\* weight = parseArgs(weight, n, 1.0)
fullConstraintWeight(weight, w, n) == parseArgs(<<weight, n, NumV(DefaultInfluence)>>, <<>>)

\* fullConstraint(target, source, name, n, weight, w, skip, s, maintainOffset)
fullConstraint(name, n, weight, w, skip, maintainOffset, rev, order) ==
  CHOOSE r \in
    {IF attrs.k # "ok" THEN [out |-> Raise(attrs.k), made |-> <<>>]
     ELSE createConstraints(order, attrs.names, name1, weight1, maintainOffset, <<>>) :
       name1 \in {parseArgs(<<name, n, NoneV>>, <<>>)},
       weight1 \in {fullConstraintWeight(weight, w, n)},
       attrs \in {resolveAttributeNames(SeqToSet(asList(skip)), rev)}} : TRUE

\* The attributes parentConstraint, orientConstraint, pointConstraint and
\* scaleConstraint add to skip.
AddedSkip(fn) ==
  CASE fn = "parent" -> <<StrV(ScaleX), StrV(ScaleY), StrV(ScaleZ)>>
    [] fn = "orient" -> <<StrV(LocationX), StrV(LocationY), StrV(LocationZ),
                          StrV(ScaleX), StrV(ScaleY), StrV(ScaleZ)>>
    [] fn = "point" -> <<StrV(RotationX), StrV(RotationY), StrV(RotationZ),
                         StrV(ScaleX), StrV(ScaleY), StrV(ScaleZ)>>
    [] fn = "scale" -> <<StrV(RotationX), StrV(RotationY), StrV(RotationZ),
                         StrV(LocationX), StrV(LocationY), StrV(LocationZ)>>

\* The names the loop of fullConstraint walks, for the skip list it is given.
SkipGroups(skip, rev) == AxisGroups(resolveAttributeNames(SeqToSet(asList(skip)), rev).names)

\* parentConstraint, orientConstraint, pointConstraint, scaleConstraint:
\* name = parseArgs(name, n, None); weight = parseArgs(weight, n, None);
\* skip = list(set(asList(skip) + [...])); fullConstraint(name=, weight=, skip=).
otherConstraint(fn, name, n, weight, w, skip, maintainOffset, rev, order) ==
  fullConstraint(parseArgs(<<name, n, NoneV>>, <<>>), NoneV,
                 parseArgs(<<weight, n, NoneV>>, <<>>), NoneV,
                 ListV(asList(skip) \o AddedSkip(fn)), maintainOffset, rev, order)

ConstraintFunctions == {"full", "parent", "orient", "point", "scale"}
NameInputs == {NoneV, StrV(ConName)}
WeightInputs == {NoneV, NumV(0), NumV(5)}
SkipInputs ==
  {NoneV, ListV(<<StrV(LocationX)>>), ListV(<<StrV(Tx), StrV(RotationY)>>),
   ListV(<<StrV(ScaleX), StrV(ScaleY)>>)}
NoCall == [fn |-> "none", name |-> NoneV, n |-> NoneV, weight |-> NoneV, w |-> NoneV]

ConInit == conCall = NoCall /\ conMade = <<>> /\ conOut = Unset
ConIdle == ConInit

\* skip as the called function hands it to the loop
EffectiveSkip(fn, skip) == IF fn = "full" THEN skip ELSE ListV(asList(skip) \o AddedSkip(fn))

CallConstraint(fn) ==
  /\ conCall = NoCall
  /\ \E name \in NameInputs, n \in NameInputs, weight \in WeightInputs, w \in WeightInputs,
        skip \in SkipInputs, mo \in {NoneV, BoolV(TRUE)}, rev \in BOOLEAN :
       \E groups \in {SkipGroups(EffectiveSkip(fn, skip), rev)} :
         \E order \in Perms(groups) :
           \E r \in {IF fn = "full"
                      THEN fullConstraint(name, n, weight, w, skip, mo, rev, order)
                      ELSE otherConstraint(fn, name, n, weight, w, skip, mo, rev, order)} :
             /\ conCall' = [fn |-> fn, name |-> name, n |-> n, weight |-> weight, w |-> w]
             /\ conMade' = r.made
             /\ conOut' = r.out
  /\ UNCHANGED notCon

CallFullConstraint == CallConstraint("full")
CallParentConstraint == CallConstraint("parent")
CallOrientConstraint == CallConstraint("orient")
CallPointConstraint == CallConstraint("point")
CallScaleConstraint == CallConstraint("scale")

ArgsNext ==
  \/ CallParseArgs
  \/ CallParseArgsKeyword

ConNext ==
  \/ CallFullConstraint
  \/ CallParentConstraint
  \/ CallOrientConstraint
  \/ CallPointConstraint
  \/ CallScaleConstraint

(***************************************************************************)
(* batch and BatchedThread                                                 *)
(***************************************************************************)
MaxItems == 3

EmptyDict == [i \in {} |-> NoneV]
Max(a, b) == IF a >= b THEN a ELSE b
Min(a, b) == IF a <= b THEN a ELSE b

\* batchSize = 1 if batchSize < 1 else batchSize
effectiveBatchSize(batchSize) == IF batchSize < 1 THEN 1 ELSE batchSize

\* len(range(0, len(items), batchSize))
numBatches(items, b) == (Len(items) + b - 1) \div b

\* batches = [items[i:i+batchSize] for i in range(0, len(items), batchSize)],
\* as a dictionary from the batch index (counted from 0) to the slice
batches(items, b) ==
  [i \in 0..(numBatches(items, b) - 1) |->
     SubSeq(items, i * b + 1, Min(i * b + b, Len(items)))]

\* numThreads = max(len(batches) if threads < 1 else threads, len(batches))
numThreads(threads, n) == Max(IF threads < 1 THEN n ELSE threads, n)

\* The functions handed to batch.  Each takes a list and returns a list:
\* "reversed" returns the list backwards; "failing" does the same but raises
\* for a list that holds FailItem.
FailItem == NumV(1)
Reverse(s) == [i \in 1..Len(s) |-> s[Len(s) + 1 - i]]
FunctionRaises(function, data) ==
  function = "failing" /\ \E i \in 1..Len(data) : data[i] = FailItem
FunctionResult(function, data) == Reverse(data)

\* BatchedThread.__init__
NewThread == [pc |-> "loop", cur |-> <<>>, data |-> EmptyDict, result |-> EmptyDict,
              isAlive |-> TRUE]

\* results = []; for i in range(len(batches)): results += threadData[i]
RECURSIVE concatResultsBackwards(_, _)
concatResultsBackwards(threadData, n) ==
  IF n = 0 THEN <<>> ELSE threadData[n - 1] \o concatResultsBackwards(threadData, n - 1)
RECURSIVE concatResults(_, _)
concatResults(threadData, n) ==
  IF n = 0 THEN <<>> ELSE concatResults(threadData, n - 1) \o threadData[n - 1]

BatchItems == asList(batItems)
BatchSize == effectiveBatchSize(batSize)
Batches == batches(BatchItems, BatchSize)
NumBatches == numBatches(BatchItems, BatchSize)
Threads == 1..Len(batThreads)

ItemList(n) == ListV([i \in 1..n |-> NumV(i)])
ItemInputs == {ItemList(n) : n \in 0..MaxItems} \cup {NumV(2)}
SizeInputs == {-1, 1, 2}
ThreadInputs == {-1, 2}
FunctionInputs == {"reversed", "failing"}

\* batch up to the start of the threads (lines 4320-4330): the workers are
\* created and started, the queue is empty.
BatInit ==
  /\ batItems \in ItemInputs
  /\ batSize \in SizeInputs
  /\ batFunction \in FunctionInputs
  /\ \E threads \in ThreadInputs :
       batThreads = [i \in 1..numThreads(threads, NumBatches) |-> NewThread]
  /\ batQueue = <<>>
  /\ batUnfinished = 0
  /\ batMain = IF NumBatches = 0 THEN "join" ELSE "put"
  /\ batNext = 0
  /\ batThreadData = EmptyDict
  /\ batCalls = [i \in DOMAIN Batches |-> 0]
  /\ batOut = Unset

BatIdle ==
  /\ batItems = NoneV /\ batSize = 0 /\ batFunction = "none" /\ batThreads = <<>>
  /\ batQueue = <<>> /\ batUnfinished = 0 /\ batMain = "idle" /\ batNext = 0
  /\ batThreadData = EmptyDict /\ batCalls = EmptyDict /\ batOut = Unset

\* for index, batch in enumerate(batches): queue.put((index, batch))
BatchPut ==
  /\ batMain = "put"
  /\ batQueue' = Append(batQueue, <<batNext, Batches[batNext]>>)
  /\ batUnfinished' = batUnfinished + 1
  /\ batNext' = batNext + 1
  /\ batMain' = IF batNext + 1 = NumBatches THEN "join" ELSE "put"
  /\ UNCHANGED <<batArgs, batThreads, batThreadData, batCalls, batOut, notBat>>

\* queue.join(): returns once every task that was put has been marked done
BatchJoin ==
  /\ batMain = "join"
  /\ batUnfinished = 0
  /\ batMain' = "merge"
  /\ batNext' = 1
  /\ UNCHANGED <<batArgs, batThreads, batQueue, batUnfinished, batThreadData,
                 batCalls, batOut, notBat>>

\* for thread in threads: thread.isAlive = False;
\*     for index in thread.data.keys(): threadData[index] = thread.result[index]
BatchMerge ==
  /\ batMain = "merge"
  /\ batNext <= Len(batThreads)
  /\ batThreads' = [batThreads EXCEPT ![batNext].isAlive = FALSE]
  /\ IF DOMAIN batThreads[batNext].data \subseteq DOMAIN batThreads[batNext].result
     THEN /\ batThreadData' = batThreads[batNext].result @@ batThreadData
          /\ batNext' = batNext + 1
          /\ UNCHANGED <<batMain, batOut>>
     ELSE /\ batOut' = Raise("KeyError")
          /\ batMain' = "done"
          /\ UNCHANGED <<batThreadData, batNext>>
  /\ UNCHANGED <<batArgs, batQueue, batUnfinished, batCalls, notBat>>

\* results = []; for i in range(len(batches)): results += threadData[i];
\* return results
BatchReturn ==
  /\ batMain = "merge"
  /\ batNext > Len(batThreads)
  /\ batMain' = "done"
  /\ batOut' = IF DOMAIN Batches \subseteq DOMAIN batThreadData
               THEN Ok(ListV(concatResults(batThreadData, NumBatches)))
               ELSE Raise("KeyError")
  /\ UNCHANGED <<batArgs, batThreads, batQueue, batUnfinished, batNext,
                 batThreadData, batCalls, notBat>>

\* BatchedThread.run: while self.isAlive
ThreadLoop(t) ==
  /\ batThreads[t].pc = "loop"
  /\ batThreads' = [batThreads EXCEPT ![t].pc = IF batThreads[t].isAlive
                                                THEN "get" ELSE "exit"]
  /\ UNCHANGED <<batArgs, batQueue, batUnfinished, batMain, batNext, batThreadData,
                 batCalls, batOut, notBat>>

\* data = self.queue.get(): blocks while the queue is empty.  The tuple is
\* never false, so 'if not data: break' does not leave the loop.
ThreadGet(t) ==
  /\ batThreads[t].pc = "get"
  /\ batQueue # <<>>
  /\ batThreads' = [batThreads EXCEPT ![t].pc = "store", ![t].cur = Head(batQueue)]
  /\ batQueue' = Tail(batQueue)
  /\ UNCHANGED <<batArgs, batUnfinished, batMain, batNext, batThreadData,
                 batCalls, batOut, notBat>>

\* index = data[0]; data = asList(data[1]); self.data[index] = data
ThreadStore(t) ==
  /\ batThreads[t].pc = "store"
  /\ batThreads' = [batThreads EXCEPT
       ![t].pc = "call",
       ![t].data = (batThreads[t].cur[1] :> asList(ListV(batThreads[t].cur[2]))) @@ @]
  /\ UNCHANGED <<batArgs, batQueue, batUnfinished, batMain, batNext, batThreadData,
                 batCalls, batOut, notBat>>

\* self.result[index] = self.function(data); an exception of function ends
\* the thread
ThreadCall(t) ==
  /\ batThreads[t].pc = "call"
  /\ batCalls' = [batCalls EXCEPT ![batThreads[t].cur[1]] = @ + 1]
  /\ batThreads' =
       IF FunctionRaises(batFunction, batThreads[t].data[batThreads[t].cur[1]])
       THEN [batThreads EXCEPT ![t].pc = "dead"]
       ELSE [batThreads EXCEPT
              ![t].pc = "taskdone",
              ![t].result = (batThreads[t].cur[1] :>
                   FunctionResult(batFunction, batThreads[t].data[batThreads[t].cur[1]])) @@ @]
  /\ UNCHANGED <<batArgs, batQueue, batUnfinished, batMain, batNext, batThreadData,
                 batOut, notBat>>

\* self.queue.task_done()
ThreadTaskDone(t) ==
  /\ batThreads[t].pc = "taskdone"
  /\ batUnfinished' = batUnfinished - 1
  /\ batThreads' = [batThreads EXCEPT ![t].pc = "loop"]
  /\ UNCHANGED <<batArgs, batQueue, batMain, batNext, batThreadData, batCalls,
                 batOut, notBat>>

BatNext ==
  \/ BatchPut
  \/ BatchJoin
  \/ BatchMerge
  \/ BatchReturn
  \/ \E t \in Threads : ThreadLoop(t)
  \/ \E t \in Threads : ThreadGet(t)
  \/ \E t \in Threads : ThreadStore(t)
  \/ \E t \in Threads : ThreadCall(t)
  \/ \E t \in Threads : ThreadTaskDone(t)

(***************************************************************************)
(* Animation curves of the host scene                                      *)
(***************************************************************************)
\* The element of a one-element set: Only({e(v) : v \in {x}}) computes x once
\* and then e on its value.
Only(S) == CHOOSE r \in S : TRUE

\* An FCurve of the object's action, named by (data_path, array_index).
CurveV(id) == [t |-> "curve", v |-> id]
isFCurve(x) == x.t = "curve"

\* The scene as the key functions see it: the state of the object's
\* animation_data and the keyframe points (sets of <<frame, value>>) of
\* every FCurve of its action.
Scene(anim, points) == [anim |-> anim, points |-> points]
\* What a function that edits the scene hands back: the scene and its outcome.
Got(sc, out) == [sc |-> sc, out |-> out]

\* curve.keyframe_points.insert(frame, value): a key on that frame is replaced
insertKey(pts, co) == {q \in pts : q[1] # co[1]} \cup {co}
insertPoint(sc, id, co) ==
  Scene(sc.anim, [sc.points EXCEPT ![id] = insertKey(@, co)])

\* keyframe_points in the order the host keeps them: by frame
RECURSIVE sortedPoints(_)
sortedPoints(pts) ==
  IF pts = {} THEN <<>>
  ELSE <<CHOOSE q \in pts : \A r \in pts : q[1] <= r[1]>>
       \o sortedPoints(pts \ {CHOOSE q \in pts : \A r \in pts : q[1] <= r[1]})

\* getFCurve.getCurve(items, attribute, index)
getCurve(sc, stripAttribute, index) ==
  IF <<stripAttribute, index>> \in DOMAIN sc.points
  THEN Ok(CurveV(<<stripAttribute, index>>)) ELSE Ok(NoneV)

\* index = index or 0
indexOrZero(index) == IF index = NoneV THEN 0 ELSE index.v

\* getFCurve from 'items = data.action.fcurves' on: the curve of the action,
\* created empty when it is missing and createIfNotExists is set
\* (keyframe_insert adds the curve with one key, which is removed again)
getActionCurve(sc, strip, index, createIfNotExists) ==
  IF sc.anim # "action" THEN Got(sc, Raise("AttributeError"))
  ELSE IF <<strip, index>> \in DOMAIN sc.points \/ ~createIfNotExists
  THEN Got(sc, getCurve(sc, strip, index))
  ELSE Got(Scene(sc.anim, (<<strip, index>> :> {}) @@ sc.points),
           Ok(CurveV(<<strip, index>>)))

\* getFCurve from 'stripAttribute, index = getAttributeIndex(attribute)' on;
\* ai is the outcome of getAttributeIndex
getIndexedCurve(sc, ai, createIfNotExists) ==
  IF ai.k # "ok" THEN Got(sc, ai)
  ELSE getActionCurve(sc, ai.val.v[1].v, indexOrZero(ai.val.v[2]), createIfNotExists)

\* getFCurve after 'object, attribute = parseObjectAttribute(object, attribute)':
\* None for a value without animation_data; animation_data_create() is
\* called when there is none and createIfNotExists is set, but 'data' is not
\* read again
getParsedCurve(sc, oa, createIfNotExists, rev) ==
  IF oa.k # "ok" THEN Got(sc, oa)
  ELSE IF oa.val.v[1].t # "obj" THEN Got(sc, Ok(NoneV))
  ELSE IF sc.anim = "none" /\ ~createIfNotExists THEN Got(sc, Ok(NoneV))
  ELSE Only({getIndexedCurve(IF sc.anim = "none" THEN Scene("noaction", sc.points) ELSE sc,
                              ai, createIfNotExists) :
             ai \in {getAttributeIndex(oa.val.v[2], rev)}})

\* getFCurve(object, attribute, createIfNotExists=)
getFCurve(sc, object, attribute, createIfNotExists, rev) ==
  IF isFCurve(object) THEN Got(sc, Ok(object))
  ELSE Only({getParsedCurve(sc, oa, createIfNotExists, rev) :
             oa \in {parseObjectAttribute(object, attribute, rev)}})

(***************************************************************************)
(* parseObjectAttributes and listAttr                                      *)
(***************************************************************************)
\* A Python dict that is iterated is a sequence of <<key, value>> pairs in
\* insertion order.
dictHas(d, key) == \E i \in 1..Len(d) : d[i][1] = key
dictGet(d, key) == d[CHOOSE i \in 1..Len(d) : d[i][1] = key][2]
\* d[key] = value
dictSet(d, key, value) ==
  IF dictHas(d, key)
  THEN [i \in 1..Len(d) |-> IF d[i][1] = key THEN <<key, value>> ELSE d[i]]
  ELSE Append(d, <<key, value>>)
\* d.update(e)
RECURSIVE dictUpdate(_, _)
dictUpdate(d, e) ==
  IF e = <<>> THEN d ELSE dictUpdate(dictSet(d, e[1][1], e[1][2]), Tail(e))

Hide == <<"h","i","d","e">>

\* listAttr(obj) with its defaults, before list(set(results)): the nine
\* transform channels, 'hide' and the custom properties of an object
listAttrResults(obj) ==
  CASE obj.t = "obj" ->
         <<StrV(LocationX), StrV(LocationY), StrV(LocationZ),
           StrV(RotationX), StrV(RotationY), StrV(RotationZ),
           StrV(ScaleX), StrV(ScaleY), StrV(ScaleZ), StrV(Hide)>>
         \o (IF obj.v = CubeName THEN <<StrV(CustomProp)>> ELSE <<>>)
    [] obj.t = "None" -> <<>>

\* return list(set(results)): the order of a set of strings is not fixed;
\* order picks one of two
listAttr(obj, order) ==
  IF order THEN listAttrResults(obj) ELSE Reverse(listAttrResults(obj))

\* parseObjectAttributes.parseResults: every value of results is a list here,
\* so removeNone drops nothing
parseResults(results, listAttrIfEmpty, order) ==
  [i \in 1..Len(results) |->
     IF listAttrIfEmpty /\ results[i][2] = <<>>
     THEN <<results[i][1], listAttr(results[i][1], order)>>
     ELSE results[i]]

\* 'o, a = object.rsplit('.', 1); if not re.match('[0-9].*', a): object = o'
objectPart(name) ==
  IF ~Contains(name, ".") THEN name
  ELSE IF RSplitTail(name, ".") # <<>> /\ RSplitTail(name, ".")[1] \in Digits THEN name
  ELSE RSplitHead(name, ".")

\* results = {object: asList(attribute, skipNoneType=True)} for the pair that
\* parseObjectAttribute returned
pairResults(oa) ==
  IF oa.k # "ok" THEN oa
  ELSE Ok(<< <<oa.val.v[1], IF oa.val.v[2] = NoneV THEN <<>> ELSE asList(oa.val.v[2])>> >>)

\* the step of 'for item in object: results.update(parseObjectAttributes(item, ...))'
updated(one, rest) ==
  IF one.k # "ok" THEN one
  ELSE IF rest.k # "ok" THEN rest
  ELSE Ok(dictUpdate(one.val, rest.val))

\* parseObjectAttributes(object, attributes, listAttrIfEmpty=, removeNone=True).
\* Lists and tuples are one type here; parseItems is the loop over a list,
\* whose inner calls leave listAttrIfEmpty at its default.
RECURSIVE parseObjectAttributes(_, _, _, _, _)
RECURSIVE parseItems(_, _, _, _)
parseItems(items, attributes, order, rev) ==
  IF items = <<>> THEN Ok(<<>>)
  ELSE Only({updated(one, rest) :
               one \in {parseObjectAttributes(Head(items), attributes, FALSE, order, rev)},
               rest \in {parseItems(Tail(items), attributes, order, rev)}})

withResults(parsed, listAttrIfEmpty, order) ==
  Only({IF r.k # "ok" THEN r ELSE Ok(parseResults(r.val, listAttrIfEmpty, order)) :
        r \in {parsed}})

parseObjectAttributes(object, attributes, listAttrIfEmpty, order, rev) ==
  IF ~Truthy(object) /\ ~Truthy(attributes) THEN Ok(<<>>)
  ELSE IF Truthy(attributes) THEN
    IF object.t = "str"
    THEN Ok(parseResults(<< <<asObject(StrV(objectPart(object.v))), asList(attributes)>> >>,
                         listAttrIfEmpty, order))
    ELSE IF object.t = "list"
    THEN withResults(parseItems(object.v, attributes, order, rev), listAttrIfEmpty, order)
    ELSE IF object.t = "dict" THEN Raise("RuntimeError")
    ELSE IF Truthy(asObject(object))
    THEN Ok(parseResults(<< <<asObject(object), asList(attributes)>> >>,
                         listAttrIfEmpty, order))
    ELSE Ok(<<>>)
  ELSE IF object.t = "str"
  THEN withResults(pairResults(parseObjectAttribute(object, NoneV, rev)),
                   listAttrIfEmpty, order)
  ELSE IF object.t = "list"
  THEN withResults(parseItems(object.v, NoneV, order, rev), listAttrIfEmpty, order)
  ELSE IF object.t = "dict"
  THEN withResults(parseObjectAttributes(object.v[1], object.v[2], FALSE, order, rev),
                   listAttrIfEmpty, order)
  ELSE IF Truthy(asObject(object))
  THEN Ok(parseResults(<< <<asObject(object), <<>> >> >>, listAttrIfEmpty, order))
  ELSE Raise("RuntimeError")

(***************************************************************************)
(* copyKey and cutKey                                                      *)
(***************************************************************************)
\* curves = [objects] for an FCurve, the FCurves of a list, else []
curvesOf(objects) ==
  IF isFCurve(objects) THEN <<objects>>
  ELSE IF objects.t = "list" THEN SelectSeq(objects.v, isFCurve)
  ELSE <<>>

\* A key is named by its curve and its co = <<frame, value>>.
keysOfCurve(curve, pts) == [i \in 1..Len(pts) |-> [curve |-> curve, co |-> pts[i]]]

\* keyframe(curves, keys=True, query=True), that is getKeys(curves): the keys
\* of all the curves, curve by curve; nothing for an empty list
RECURSIVE keyframe(_, _)
keyframe(sc, curves) ==
  IF curves = <<>> THEN <<>>
  ELSE keysOfCurve(Head(curves), sortedPoints(sc.points[Head(curves).v]))
       \o keyframe(sc, Tail(curves))

\* the items getKeyInfo builds from keyData
keyItems(curve, keyData) ==
  [i \in 1..Len(keyData) |-> [key |-> keyData[i], curve |-> curve, co |-> keyData[i].co]]

\* copyKey.getKeyInfo(curve): it queries 'curves', the list of the FCurves
\* that were passed to copyKey, and is called without time and without cut,
\* so that no key is removed
getKeyInfo(sc, curve, curves) ==
  Only({keyItems(curve, keyData) : keyData \in {keyframe(sc, curves)}})

\* for curve in curves: results['curves'][curve] = getKeyInfo(curve)
RECURSIVE copyCurves(_, _, _, _)
copyCurves(sc, todo, curves, results) ==
  IF todo = <<>> THEN results
  ELSE Only({copyCurves(sc, Tail(todo), curves, dictSet(results, Head(todo), keyInfo)) :
             keyInfo \in {getKeyInfo(sc, Head(todo), curves)}})

\* if object not in results.keys(): results['data'][object] = dict()
\* results['data'][object][attribute] = keyInfo
\* (results has the keys 'curves' and 'data', so the dict is always renewed)
storeKeyInfo(resultsData, object, attribute, keyInfo) ==
  dictSet(resultsData, object, dictSet(<<>>, attribute, keyInfo))

\* one round of 'for attribute in attributes', c being getFCurve's outcome
copyAttribute(sc, object, attribute, c, curves, done) ==
  Only({IF acc.k # "ok" THEN acc
        ELSE IF c.k # "ok" THEN c
        ELSE IF ~Truthy(c.val) THEN acc
        ELSE Ok(storeKeyInfo(acc.val, object, attribute, getKeyInfo(sc, c.val, curves))) :
        acc \in {done}})

RECURSIVE copyAttributes(_, _, _, _, _, _)
copyAttributes(sc, object, attributes, curves, acc, rev) ==
  IF attributes = <<>> THEN acc
  ELSE Only({copyAttributes(sc, object, Tail(attributes), curves,
                            copyAttribute(sc, object, Head(attributes), c, curves, acc), rev) :
             c \in {getFCurve(sc, object, Head(attributes), FALSE, rev).out}})

\* for object, attributes in data.items(): ...
RECURSIVE copyObjects(_, _, _, _, _)
copyObjects(sc, data, curves, acc, rev) ==
  IF data = <<>> THEN acc
  ELSE Only({copyObjects(sc, Tail(data), curves, a, rev) :
             a \in {copyAttributes(sc, data[1][1], data[1][2], curves, acc, rev)}})

\* The key buffer: [] when the module is loaded, then the results of copyKey.
EmptyBuffer == [t |-> "list", curves |-> <<>>, data |-> <<>>]
Results(curves, data) == [t |-> "dict", curves |-> curves, data |-> data]

\* what copyKey leaves: the outcome and the buffer
Copied(out, buffer) == [out |-> out, buffer |-> buffer]
copyResults(resultsCurves, d, buffer) ==
  IF d.k # "ok" THEN Copied(d, buffer)
  ELSE Copied(Ok(Results(resultsCurves, d.val)), Results(resultsCurves, d.val))

copyParsed(sc, curves, data, buffer, rev) ==
  IF data.k # "ok" THEN Copied(data, buffer)
  ELSE Only({copyResults(resultsCurves, d, buffer) :
             resultsCurves \in {copyCurves(sc, curves, curves, <<>>)},
             d \in {copyObjects(sc, data.val, curves, Ok(<<>>), rev)}})

\* copyKey(objects, attribute, time=, cut=): time and cut are read (parseArgs,
\* parseDouble) but reach neither getKeyInfo nor keyframe
copyKey(sc, objects, attribute, time, cut, buffer, order, rev) ==
  Only({copyParsed(sc, curvesOf(objects), data, buffer, rev) :
        data \in {parseObjectAttributes(objects, attribute, TRUE, order, rev)}})

\* cutKey(objects, attribute, time=): copyKey(..., cut=True)
cutKey(sc, objects, attribute, time, buffer, order, rev) ==
  copyKey(sc, objects, attribute, time, BoolV(TRUE), buffer, order, rev)

(***************************************************************************)
(* pasteKey                                                                *)
(***************************************************************************)
\* pasteKey.applyData(curve, keyInfo, option='insert'): min(times) raises
\* ValueError for an empty keyInfo; the range is the range of the keys, so
\* the first item is inserted, and 'item.get(attr) + offset' then adds a
\* number to the handle tuple, which raises TypeError
applyData(sc, curve, keyInfo) ==
  IF keyInfo = <<>> THEN Got(sc, Raise("ValueError"))
  ELSE Got(insertPoint(sc, curve.v, keyInfo[1].co), Raise("TypeError"))

\* the keyInfo lists in the order the curve branch reads them: those of
\* curveInfo, then those of every attribute of every object of objectInfo
RECURSIVE dictValues(_)
dictValues(d) == IF d = <<>> THEN <<>> ELSE <<d[1][2]>> \o dictValues(Tail(d))
RECURSIVE attributeEntries(_)
attributeEntries(objectInfo) ==
  IF objectInfo = <<>> THEN <<>>
  ELSE dictValues(objectInfo[1][2]) \o attributeEntries(Tail(objectInfo))
bufferEntries(buffer) == dictValues(buffer.curves) \o attributeEntries(buffer.data)

\* the loops with the counter i of the curve branch: 'if i >= len(curves):
\* return', applyData(curves[i], keyInfo), i += 1
RECURSIVE pasteCurves(_, _, _)
pasteNext(a, curves, entries) ==
  IF a.out.k # "ok" THEN a ELSE pasteCurves(a.sc, curves, entries)
pasteCurves(sc, curves, entries) ==
  IF entries = <<>> \/ curves = <<>> THEN Got(sc, Ok(NoneV))
  ELSE Only({pasteNext(a, Tail(curves), Tail(entries)) :
             a \in {applyData(sc, Head(curves), Head(entries))}})

\* the object branch: 'for object, attributes in data:' iterates the keys of
\* the dict and cannot unpack an object into two names
pasteObjects(sc, data) ==
  IF data = <<>> THEN Got(sc, Ok(ListV(<<>>))) ELSE Got(sc, Raise("TypeError"))

pasteParsed(sc, curves, data, buffer) ==
  IF data.k # "ok" THEN Got(sc, data)
  ELSE IF buffer.t = "list" THEN Got(sc, Raise("AttributeError"))
  ELSE IF curves # <<>> THEN pasteCurves(sc, curves, bufferEntries(buffer))
  ELSE pasteObjects(sc, data.val)

\* pasteKey(objects, attribute) with the default option
pasteKey(sc, objects, attribute, buffer, order, rev) ==
  Only({pasteParsed(sc, curvesOf(objects), data, buffer) :
        data \in {parseObjectAttributes(objects, attribute, TRUE, order, rev)}})

(***************************************************************************)
(* setKeyframe and bakeSimulation                                          *)
(***************************************************************************)
\* what getFCurves gathers: the scene, the curves and the outcome
Curves(sc, curves, out) == [sc |-> sc, curves |-> curves, out |-> out]

\* curves += [getFCurve(obj, attr, createIfNotExists=...)], kept when true
addCurve(acc, g) ==
  IF g.out.k # "ok" THEN Curves(g.sc, acc.curves, g.out)
  ELSE Curves(g.sc, IF Truthy(g.out.val) THEN Append(acc.curves, g.out.val) ELSE acc.curves,
              g.out)

RECURSIVE attributeCurves(_, _, _, _, _)
attributeCurves(acc, obj, attrs, createIfNotExists, rev) ==
  IF attrs = <<>> \/ acc.out.k # "ok" THEN acc
  ELSE Only({attributeCurves(addCurve(acc, g), obj, Tail(attrs), createIfNotExists, rev) :
             g \in {getFCurve(acc.sc, obj, Head(attrs), createIfNotExists, rev)}})

RECURSIVE objectCurves(_, _, _, _)
objectCurves(acc, data, createIfNotExists, rev) ==
  IF data = <<>> \/ acc.out.k # "ok" THEN acc
  ELSE Only({objectCurves(a, Tail(data), createIfNotExists, rev) :
             a \in {attributeCurves(acc, data[1][1], data[1][2], createIfNotExists, rev)}})

parsedCurves(sc, data, createIfNotExists, rev) ==
  IF data.k # "ok" THEN Curves(sc, <<>>, data)
  ELSE objectCurves(Curves(sc, <<>>, Ok(NoneV)), data.val, createIfNotExists, rev)

\* getFCurves(data, createIfNotExists=)
getFCurves(sc, data, createIfNotExists, order, rev) ==
  IF curvesOf(data) # <<>> THEN Curves(sc, curvesOf(data), Ok(NoneV))
  ELSE Only({parsedCurves(sc, parsed, createIfNotExists, rev) :
             parsed \in {parseObjectAttributes(data, NoneV, TRUE, order, rev)}})

\* the dict that parseObjectAttributes returned, as a value
asDict(data) ==
  CASE data = <<>> -> [t |-> "dict", v |-> <<>>]
    [] Len(data) = 1 -> DictV(data[1][1], ListV(data[1][2]))

\* for curve in curves: key = curve.keyframe_points.insert(time, v)
RECURSIVE insertKeys(_, _, _)
insertKeys(sc, curves, co) ==
  IF curves = <<>> THEN sc
  ELSE insertKeys(insertPoint(sc, Head(curves).v, co), Tail(curves), co)

keyCurves(c, co) ==
  IF c.out.k # "ok" THEN Got(c.sc, c.out)
  ELSE Got(insertKeys(c.sc, c.curves, co), Ok(ListV(c.curves)))

keyParsed(sc, data, co, order, rev) ==
  IF data.k # "ok" THEN Got(sc, data)
  ELSE Only({keyCurves(c, co) : c \in {getFCurves(sc, asDict(data.val), TRUE, order, rev)}})

\* setKeyframe(objects, attribute, time=, value=) for an object and an
\* attribute, without tangent types
setKeyframe(sc, objects, attribute, time, value, order, rev) ==
  Only({keyParsed(sc, data, <<time, value>>, order, rev) :
        data \in {parseObjectAttributes(objects, attribute, TRUE, order, rev)}})

\* curve.evaluate(frame) for a curve with keys: the value of the key on
\* the frame, else of the last key before it, else of the first key
evaluate(pts, frame) ==
  IF \E q \in pts : q[1] <= frame
  THEN (CHOOSE q \in pts : q[1] <= frame /\ \A r \in pts : r[1] <= frame => r[1] <= q[1])[2]
  ELSE (CHOOSE q \in pts : \A r \in pts : q[1] <= r[1])[2]

\* getAttr(object, attribute) while the scene is on a frame: the animated
\* value, 0 for a channel without keys; c is the curve of the attribute
getAttr(sc, c, frame) ==
  IF c.k = "ok" /\ isFCurve(c.val) /\ sc.points[c.val.v] # {}
  THEN evaluate(sc.points[c.val.v], frame) ELSE 0

\* what bakeSimulation leaves: the scene, the outcome and the key buffer
Baked(sc, out, buffer) == [sc |-> sc, out |-> out, buffer |-> buffer]

\* for key, value in keyInfo.items(): setKeyframe(object, attribute, time=key,
\* value=value); the values were gathered from the scene sc0 before any edit
keyed(st, g) == Baked(g.sc, IF g.out.k # "ok" THEN g.out ELSE st.out, st.buffer)
RECURSIVE bakeKeys(_, _, _, _, _, _, _, _)
bakeKeys(st, sc0, object, attribute, frame, endTime, order, rev) ==
  IF st.out.k # "ok" \/ frame > endTime THEN st
  ELSE Only({bakeKeys(keyed(st, g), sc0, object, attribute, frame + 1, endTime, order, rev) :
             g \in {setKeyframe(st.sc, object, attribute, frame,
                                getAttr(sc0, getFCurve(sc0, object, attribute, FALSE, rev).out,
                                        frame),
                                order, rev)}})

\* cutKey replaces the key buffer
cutInto(st, cut) ==
  Baked(st.sc, IF cut.out.k # "ok" THEN cut.out ELSE st.out, cut.buffer)

\* animationCurve = getFCurve(object, attribute)
\* if animationCurve: cutKey(object, attribute, time=(startTime, endTime))
bakeCut(st, c, object, attribute, startTime, endTime, order, rev) ==
  IF c.k # "ok" THEN Baked(st.sc, c, st.buffer)
  ELSE IF ~Truthy(c.val) THEN st
  ELSE Only({cutInto(st, cut) :
             cut \in {cutKey(st.sc, object, attribute, <<startTime, endTime>>,
                             st.buffer, order, rev)}})

\* one attribute of the second loop; breakConnections finds no driver and
\* no constraint in this scene and leaves the curves (includeAnimationCurves
\* is False)
bakeAttribute(st, sc0, object, attribute, startTime, endTime, order, rev) ==
  IF st.out.k # "ok" THEN st
  ELSE Only({bakeKeys(cut, sc0, object, attribute, startTime, endTime, order, rev) :
             cut \in {bakeCut(st, c, object, attribute, startTime, endTime, order, rev) :
                      c \in {getFCurve(st.sc, object, attribute, FALSE, rev).out}}})

RECURSIVE bakeAttributes(_, _, _, _, _, _, _, _)
bakeAttributes(st, sc0, object, attributes, startTime, endTime, order, rev) ==
  IF attributes = <<>> THEN st
  ELSE Only({bakeAttributes(s, sc0, object, Tail(attributes), startTime, endTime, order, rev) :
             s \in {bakeAttribute(st, sc0, object, Head(attributes),
                                  startTime, endTime, order, rev)}})

RECURSIVE bakeObjects(_, _, _, _, _, _, _)
bakeObjects(st, sc0, data, startTime, endTime, order, rev) ==
  IF data = <<>> THEN st
  ELSE Only({bakeObjects(s, sc0, Tail(data), startTime, endTime, order, rev) :
             s \in {bakeAttributes(st, sc0, data[1][1], data[1][2],
                                   startTime, endTime, order, rev)}})

\* no frame is gathered when startTime > endTime, and objectData stays empty
bakeParsed(sc, data, startTime, endTime, buffer, order, rev) ==
  IF data.k # "ok" THEN Baked(sc, data, buffer)
  ELSE IF startTime > endTime THEN Baked(sc, Ok(NoneV), buffer)
  ELSE bakeObjects(Baked(sc, Ok(NoneV), buffer), sc, data.val,
                   startTime, endTime, order, rev)

\* bakeSimulation(objects, attribute, startTime=, endTime=) with step 1.
\* keyBuffer = COPY_KEY_BUFFER is saved, but the last line assigns it to
\* COPY_BUFFER, a local name: the buffer stays as cutKey left it.
bakeSimulation(sc, objects, attribute, startTime, endTime, buffer, order, rev) ==
  Only({bakeParsed(sc, data, startTime, endTime, buffer, order, rev) :
        data \in {parseObjectAttributes(objects, attribute, TRUE, order, rev)}})

(***************************************************************************)
(* Calls of the key functions                                              *)
(***************************************************************************)
MaxFrame == 2
MaxCalls == 2

Cube == ObjV(CubeName)
\* the curves of location X and location Y
CurveX == <<Location, 0>>
CurveY == <<Location, 1>>
CurveIds == {CurveX, CurveY}
\* the keys a curve can start with: any frames, the value telling the curves
\* apart
InitialPoints(id) == SUBSET {<<frame, id[2] + 1>> : frame \in 1..MaxFrame}

NoKeyCall == [op |-> "none", objects |-> NoneV, attribute |-> NoneV, out |-> Unset]
Before(points, buffer) == [points |-> points, buffer |-> buffer]

\* An object without animation_data, or an action with any of the two curves.
KeyInit ==
  /\ kyAnim \in {"none", "action"}
  /\ IF kyAnim = "none" THEN kyPoints = EmptyDict
     ELSE \E ids \in SUBSET CurveIds :
            kyPoints \in [ids -> UNION {InitialPoints(id) : id \in ids}]
            /\ \A id \in ids : kyPoints[id] \in InitialPoints(id)
  /\ COPY_KEY_BUFFER = EmptyBuffer
  /\ kyCall = NoKeyCall
  /\ kyBefore = Before(kyPoints, COPY_KEY_BUFFER)
  /\ kyCount = 0

KeyIdle ==
  /\ kyAnim = "none" /\ kyPoints = EmptyDict /\ COPY_KEY_BUFFER = EmptyBuffer
  /\ kyCall = NoKeyCall /\ kyBefore = Before(EmptyDict, EmptyBuffer) /\ kyCount = 0

\* What is passed as objects: the object, one of its curves, or two curves.
CurveTargets ==
  {CurveV(id) : id \in DOMAIN kyPoints}
  \cup {ListV(<<CurveV(p[1]), CurveV(p[2])>>) :
          p \in {q \in (DOMAIN kyPoints) \X (DOMAIN kyPoints) : q[1] # q[2]}}
\* What is passed as attribute with the object, and with curves
ObjectAttributes ==
  {NoneV, StrV(LocationX), StrV(Ty), ListV(<<StrV(LocationX), StrV(LocationY)>>),
   ListV(<<StrV(LocationY), StrV(LocationX)>>)}
CurveAttributes == {StrV(LocationX)}
KeyTargets ==
  ({Cube} \X ObjectAttributes) \cup (CurveTargets \X CurveAttributes)
BakeAttributes == {StrV(LocationX), ListV(<<StrV(LocationX), StrV(LocationY)>>)}

TheScene == Scene(kyAnim, kyPoints)
Called(op, target, out) ==
  [op |-> op, objects |-> target[1], attribute |-> target[2], out |-> out]

\* copyKey(objects, attribute)
CallCopyKey ==
  /\ kyCount < MaxCalls
  /\ \E target \in KeyTargets, order \in BOOLEAN :
       \E r \in {copyKey(TheScene, target[1], target[2], NoneV, NoneV,
                         COPY_KEY_BUFFER, order, FALSE)} :
         /\ COPY_KEY_BUFFER' = r.buffer
         /\ kyCall' = Called("copyKey", target, r.out)
  /\ kyBefore' = Before(kyPoints, COPY_KEY_BUFFER)
  /\ kyCount' = kyCount + 1
  /\ UNCHANGED <<kyAnim, kyPoints, notKeys>>

\* cutKey(objects, attribute)
CallCutKey ==
  /\ kyCount < MaxCalls
  /\ \E target \in KeyTargets, order \in BOOLEAN :
       \E r \in {cutKey(TheScene, target[1], target[2], NoneV,
                        COPY_KEY_BUFFER, order, FALSE)} :
         /\ COPY_KEY_BUFFER' = r.buffer
         /\ kyCall' = Called("cutKey", target, r.out)
  /\ kyBefore' = Before(kyPoints, COPY_KEY_BUFFER)
  /\ kyCount' = kyCount + 1
  /\ UNCHANGED <<kyAnim, kyPoints, notKeys>>

\* pasteKey(objects, attribute)
CallPasteKey ==
  /\ kyCount < MaxCalls
  /\ \E target \in KeyTargets, order \in BOOLEAN :
       \E r \in {pasteKey(TheScene, target[1], target[2], COPY_KEY_BUFFER, order, FALSE)} :
         /\ kyAnim' = r.sc.anim
         /\ kyPoints' = r.sc.points
         /\ kyCall' = Called("pasteKey", target, r.out)
  /\ kyBefore' = Before(kyPoints, COPY_KEY_BUFFER)
  /\ kyCount' = kyCount + 1
  /\ UNCHANGED <<COPY_KEY_BUFFER, notKeys>>

\* bakeSimulation(object, attribute, startTime=1, endTime=)
CallBakeSimulation ==
  /\ kyCount < MaxCalls
  /\ \E attribute \in BakeAttributes, endTime \in {0, MaxFrame} :
       \E r \in {bakeSimulation(TheScene, Cube, attribute, 1, endTime,
                                COPY_KEY_BUFFER, TRUE, FALSE)} :
         /\ kyAnim' = r.sc.anim
         /\ kyPoints' = r.sc.points
         /\ COPY_KEY_BUFFER' = r.buffer
         /\ kyCall' = Called("bakeSimulation", <<Cube, attribute>>, r.out)
  /\ kyBefore' = Before(kyPoints, COPY_KEY_BUFFER)
  /\ kyCount' = kyCount + 1
  /\ UNCHANGED notKeys

KeyNext ==
  \/ CallCopyKey
  \/ CallCutKey
  \/ CallPasteKey
  \/ CallBakeSimulation

(***************************************************************************)
(* scaleInRange and scaleKey                                               *)
(***************************************************************************)
\* A number that is not whole is kept as a fraction in lowest terms.
RECURSIVE Gcd(_, _)
Gcd(a, b) == IF b = 0 THEN a ELSE Gcd(b, a % b)
Abs(n) == IF n < 0 THEN -n ELSE n
FracV(n, d) == [t |-> "frac", v |-> <<n, d>>]
\* n / d, d not 0
Quotient(n, d) ==
  IF n % Abs(d) = 0 THEN NumV(IF d < 0 THEN -(n \div Abs(d)) ELSE n \div d)
  ELSE FracV((IF d < 0 THEN -n ELSE n) \div Gcd(Abs(n), Abs(d)),
             Abs(d) \div Gcd(Abs(n), Abs(d)))

\* min and max of a sequence of numbers that is not empty
RECURSIVE minOf(_)
minOf(s) == IF Len(s) = 1 THEN s[1] ELSE Min(s[1], minOf(Tail(s)))
RECURSIVE maxOf(_)
maxOf(s) == IF Len(s) = 1 THEN s[1] ELSE Max(s[1], maxOf(Tail(s)))

\* (r[0] if len(r) == 2 else min(r), r[1] if len(r) == 2 else max(r)) of a
\* tuple of numbers, as <<low, high>>
rangeEnds(r) ==
  IF Len(r.v) = 2 THEN <<r.v[1].v, r.v[2].v>>
  ELSE <<minOf([i \in DOMAIN r.v |-> r.v[i].v]), maxOf([i \in DOMAIN r.v |-> r.v[i].v])>>

\* The position of value in the second range, both ranges given by their ends.
scaledInRange(value, oR, tR) ==
  IF oR[1] = oR[2] THEN Ok(NumV(oR[1]))
  ELSE IF tR[1] = tR[2] THEN Ok(NumV(tR[1]))
  ELSE IF value.t # "num" THEN Raise("TypeError")
  ELSE Ok(Quotient((value.v - oR[1]) * (tR[2] - tR[1]) + tR[1] * (oR[2] - oR[1]),
                   oR[2] - oR[1]))

\* scaleInRange(value, originalRange, targetRange): len() of a range that is
\* a number raises TypeError, min() of an empty one ValueError.
scaleInRange(value, originalRange, targetRange) ==
  IF originalRange.t # "list" \/ targetRange.t # "list" THEN Raise("TypeError")
  ELSE IF originalRange.v = <<>> \/ targetRange.v = <<>> THEN Raise("ValueError")
  ELSE scaledInRange(value, rangeEnds(originalRange), rangeEnds(targetRange))

\* scaleKey.parsePivot(start, end, pivot, scale)
parsePivot(start, end, pivot, scale) ==
  <<NumV((start - pivot) * scale), NumV((end - pivot) * scale)>>

\* scaleKey.scaleIt(key, start, end, axis): the new coordinate of the key on
\* the axis (1 for 'x', 2 for 'y'); the handles are scaled by the same call
\* after it.
scaleIt(co, start, end, axis, keyRange) ==
  scaleInRange(TupleV(NumV(keyRange[1]), NumV(keyRange[2])), TupleV(start, end),
               NumV(co[axis]))

\* The arguments of scaleKey besides objects and attribute, after parseArgs.
ScaleArgs(timeScale, valueScale, timePivot, valuePivot, newStartTime, newEndTime) ==
  [timeScale |-> parseArgs(<<timeScale, NoneV, NoneV>>, <<>>),
   valueScale |-> parseArgs(<<valueScale, NoneV, NoneV>>, <<>>),
   timePivot |-> parseArgs(<<timePivot, NoneV, NumV(0)>>, <<>>),
   valuePivot |-> parseArgs(<<valuePivot, NoneV, NumV(0)>>, <<>>),
   newStartTime |-> parseArgs(<<newStartTime, NoneV, NoneV>>, <<>>),
   newEndTime |-> parseArgs(<<newEndTime, NoneV, NoneV>>, <<>>),
   newStartValue |-> NoneV, newEndValue |-> NoneV]

\* keyRange and valueRange of the keys of a curve that has some
keyRangeOf(keys) == <<minOf([i \in DOMAIN keys |-> keys[i][1]]),
                      maxOf([i \in DOMAIN keys |-> keys[i][1]])>>
valueRangeOf(keys) == <<minOf([i \in DOMAIN keys |-> keys[i][2]]),
                        maxOf([i \in DOMAIN keys |-> keys[i][2]])>>

\* _nst, _net (or _nsv, _nev): the scale about the pivot if there is one, else
\* the new range; an end that is still None is taken from the keys.
scaledEnds(range, scale, pivot, newStart, newEnd) ==
  IF scale # NoneV THEN parsePivot(range[1], range[2], pivot.v, scale.v)
  ELSE <<newStart, newEnd>>
filledEnds(ends, range) ==
  IF ends[1] = NoneV /\ ends[2] = NoneV THEN ends
  ELSE <<IF ends[1] = NoneV THEN NumV(range[1]) ELSE ends[1],
         IF ends[2] = NoneV THEN NumV(range[2]) ELSE ends[2]>>
targetEnds(range, scale, pivot, newStart, newEnd) ==
  filledEnds(scaledEnds(range, scale, pivot, newStart, newEnd), range)

\* The key with one coordinate replaced, in the curve.
movedPoint(sc, id, co, axis, value) ==
  Scene(sc.anim,
        [sc.points EXCEPT ![id] =
           (@ \ {co}) \cup {IF axis = 1 THEN <<value.v, co[2]>> ELSE <<co[1], value.v>>}])

\* for key in keys: scaleIt(key, _nst, _net, 'x'), scaleIt(key, _nsv, _nev, 'y')
scaleValue(sc, id, co, v, keyRange) ==
  IF v[1] = NoneV THEN Got(sc, Ok(NoneV))
  ELSE IF scaleIt(co, v[1], v[2], 2, keyRange).k # "ok"
       THEN Got(sc, scaleIt(co, v[1], v[2], 2, keyRange))
       ELSE Got(movedPoint(sc, id, co, 2, scaleIt(co, v[1], v[2], 2, keyRange).val),
                Ok(NoneV))
scaleTime(sc, id, co, s, v, keyRange) ==
  IF s[1] = NoneV THEN scaleValue(sc, id, co, v, keyRange)
  ELSE IF scaleIt(co, s[1], s[2], 1, keyRange).k # "ok"
       THEN Got(sc, scaleIt(co, s[1], s[2], 1, keyRange))
       ELSE scaleValue(movedPoint(sc, id, co, 1, scaleIt(co, s[1], s[2], 1, keyRange).val),
                       id, <<scaleIt(co, s[1], s[2], 1, keyRange).val.v, co[2]>>,
                       v, keyRange)
RECURSIVE scaleKeys(_, _, _, _, _, _)
scaleKeys(g, id, keys, s, v, keyRange) ==
  IF keys = <<>> \/ g.out.k # "ok" THEN g
  ELSE scaleKeys(scaleTime(g.sc, id, Head(keys), s, v, keyRange),
                 id, Tail(keys), s, v, keyRange)

\* One curve: min() of no keys raises ValueError.
scaleCurve(sc, id, keys, a) ==
  IF keys = <<>> THEN Got(sc, Raise("ValueError"))
  ELSE scaleKeys(Got(sc, Ok(NoneV)), id, keys,
                 targetEnds(keyRangeOf(keys), a.timeScale, a.timePivot,
                            a.newStartTime, a.newEndTime),
                 targetEnds(valueRangeOf(keys), a.valueScale, a.valuePivot,
                            a.newStartValue, a.newEndValue),
                 keyRangeOf(keys))
RECURSIVE scaleCurves(_, _, _, _)
scaleCurves(g, curves, all, a) ==
  IF g.out.k # "ok" THEN g
  ELSE IF curves = <<>> THEN Got(g.sc, Ok(ListV(all)))
  ELSE scaleCurves(scaleCurve(g.sc, Head(curves).v,
                              sortedPoints(g.sc.points[Head(curves).v]), a),
                   Tail(curves), all, a)

\* "if not curves: return", else the loop over the curves
scaleFound(c, a) ==
  IF c.out.k # "ok" THEN Got(c.sc, c.out)
  ELSE IF c.curves = <<>> THEN Got(c.sc, Ok(NoneV))
  ELSE scaleCurves(Got(c.sc, Ok(NoneV)), c.curves, c.curves, a)
scaleParsed(sc, data, a, order, rev) ==
  IF data.k # "ok" THEN Got(sc, data)
  ELSE Only({scaleFound(c, a) :
             c \in {getFCurves(sc, asDict(data.val), FALSE, order, rev)}})

\* scaleKey(objects, attribute, timeScale=, valueScale=, timePivot=,
\*          valuePivot=, newStartTime=, newEndTime=), without a time range
scaleKey(sc, objects, attribute, a, order, rev) ==
  IF curvesOf(objects) # <<>>
  THEN scaleFound(Curves(sc, curvesOf(objects), Ok(NoneV)), a)
  ELSE IF Truthy(attribute)
       THEN Only({scaleParsed(sc, data, a, order, rev) :
                  data \in {parseObjectAttributes(objects, attribute, TRUE, order, rev)}})
       ELSE Only({scaleFound(c, a) :
                  c \in {getFCurves(sc, objects, FALSE, order, rev)}})

MaxScaleCalls == 1
NoScaleArgs == ScaleArgs(NoneV, NoneV, NoneV, NoneV, NoneV, NoneV)
NoScaleCall ==
  [op |-> "none", objects |-> NoneV, attribute |-> NoneV, out |-> Unset,
   args |-> NoScaleArgs]

\* As for the key buffer commands: an object without animation_data, or an
\* action with any of the two curves.
ScaleInit ==
  /\ kyAnim \in {"none", "action"}
  /\ IF kyAnim = "none" THEN kyPoints = EmptyDict
     ELSE \E ids \in SUBSET CurveIds :
            kyPoints \in [ids -> UNION {InitialPoints(id) : id \in ids}]
            /\ \A id \in ids : kyPoints[id] \in InitialPoints(id)
  /\ COPY_KEY_BUFFER = EmptyBuffer
  /\ kyCall = NoScaleCall
  /\ kyBefore = Before(kyPoints, COPY_KEY_BUFFER)
  /\ kyCount = 0

ScaleTargets ==
  ({Cube} \X {NoneV, StrV(LocationX)}) \cup (CurveTargets \X {NoneV})
\* timeScale, valueScale, timePivot, and newStartTime with newEndTime
ScaleInputs ==
  {ScaleArgs(x[1], x[2], x[3], NoneV, x[4][1], x[4][2]) :
     x \in {NoneV, NumV(2)} \X {NoneV, NumV(2)} \X {NoneV, NumV(1)}
           \X {<<NoneV, NoneV>>, <<NumV(3), NumV(5)>>, <<NumV(3), NoneV>>}}

\* scaleKey(objects, attribute, ...)
CallScaleKey ==
  /\ kyCount < MaxScaleCalls
  /\ \E target \in ScaleTargets, a \in ScaleInputs, order \in BOOLEAN :
       \E r \in {scaleKey(TheScene, target[1], target[2], a, order, FALSE)} :
         /\ kyAnim' = r.sc.anim
         /\ kyPoints' = r.sc.points
         /\ kyCall' = [op |-> "scaleKey", objects |-> target[1],
                       attribute |-> target[2], out |-> r.out, args |-> a]
  /\ kyBefore' = Before(kyPoints, COPY_KEY_BUFFER)
  /\ kyCount' = kyCount + 1
  /\ UNCHANGED <<COPY_KEY_BUFFER, notKeys>>

ScaleNext == CallScaleKey

(***************************************************************************)
(* select                                                                  *)
(***************************************************************************)
LampName == <<"l","a","m","p">>
CameraName == <<"c","a","m">>
\* bpy.data.objects.values()
DataObjects == {ObjV(CubeName), ObjV(LampName), ObjV(CameraName)}

\* li(items): the last item of asList(items), or None.
li(x) == IF asList(x) = <<>> THEN NoneV ELSE asList(x)[Len(asList(x))]

\* asObjects(objects): asObject of every item, the false ones left out.
RECURSIVE asObjectsOf(_)
asObjectsOf(items) ==
  IF items = <<>> THEN <<>>
  ELSE IF Truthy(asObject(Head(items)))
       THEN <<asObject(Head(items))>> \o asObjectsOf(Tail(items))
       ELSE asObjectsOf(Tail(items))
asObjects(objects) == asObjectsOf(asList(objects))

\* The selection: the selected objects and the active object.
Selection(selected, active) == [selected |-> selected, active |-> active]

\* One operator module's select_all(action=mode), inside try/except: an
\* operator whose poll fails in the current mode raises and is passed over.
\* bpy.ops.object polls for object mode; the curve, mesh, mball and lattice
\* operators act on the components of the object in edit mode, never on the
\* select flag of an object.
selectAll(kind, ctxMode, selected, mode) ==
  IF kind # "object" \/ ctxMode # "OBJECT" THEN selected
  ELSE CASE mode = "SELECT" -> DataObjects
         [] mode = "TOGGLE" -> IF selected = {} THEN DataObjects ELSE {}
         [] OTHER -> {}

SelectAllModules == <<"curve", "mesh", "mball", "lattice", "object">>
RECURSIVE selectAllIn(_, _, _, _)
selectAllIn(kinds, ctxMode, selected, mode) ==
  IF kinds = <<>> THEN selected
  ELSE selectAllIn(Tail(kinds), ctxMode,
                   selectAll(Head(kinds), ctxMode, selected, mode), mode)

\* The bulk actions: all, toggle and clear, in that order of precedence.
bulkMode(clear, all, toggle) ==
  IF all THEN "SELECT" ELSE IF toggle THEN "TOGGLE" ELSE "DESELECT"
bulkSelect(ctxMode, sel, clear, all, toggle) ==
  Selection(selectAllIn(SelectAllModules, ctxMode, sel.selected,
                        bulkMode(clear, all, toggle)),
            sel.active)

\* obj.select = value for every object, then the last one is made active.
Range(s) == {s[i] : i \in DOMAIN s}
setSelect(sel, objects, value) ==
  Selection(IF value THEN sel.selected \cup (Range(objects) \cap DataObjects)
            ELSE sel.selected \ Range(objects),
            IF li(ListV(objects)) \in DataObjects THEN li(ListV(objects))
            ELSE sel.active)

\* select(objects, clear=, add=, all=, deselect=, toggle=)
select(ctxMode, sel, objects, clear, add, all, deselect, toggle) ==
  IF clear \/ all \/ toggle THEN bulkSelect(ctxMode, sel, clear, all, toggle)
  ELSE IF ~(deselect \/ add)
       THEN setSelect(bulkSelect(ctxMode, sel, TRUE, FALSE, FALSE),
                      asObjects(objects), ~deselect)
       ELSE setSelect(sel, asObjects(objects), ~deselect)

UnknownName == <<"n","o">>
SelectObjects ==
  {NoneV, StrV(CubeName), StrV(UnknownName)} \cup DataObjects
  \cup {ListV(<<a, b>>) : a, b \in DataObjects}
SelectFlags == {"replace", "add", "deselect", "clear", "all", "toggle"}
NoSelectCall == [objects |-> NoneV, flag |-> "none"]

SelInit ==
  /\ slMode \in {"OBJECT", "EDIT"}
  /\ slSelected \in SUBSET DataObjects
  /\ slActive \in DataObjects \cup {NoneV}
  /\ slCall = NoSelectCall
  /\ slBefore = Selection(slSelected, slActive)
SelIdle ==
  /\ slMode = "OBJECT" /\ slSelected = {} /\ slActive = NoneV
  /\ slCall = NoSelectCall /\ slBefore = Selection({}, NoneV)

\* select(objects) with one of the flags, or with none
CallSelect ==
  /\ \E objects \in SelectObjects, flag \in SelectFlags :
       \E r \in {select(slMode, Selection(slSelected, slActive), objects,
                        flag = "clear", flag = "add", flag = "all",
                        flag = "deselect", flag = "toggle")} :
         /\ slSelected' = r.selected
         /\ slActive' = r.active
         /\ slCall' = [objects |-> objects, flag |-> flag]
  /\ slBefore' = Selection(slSelected, slActive)
  /\ UNCHANGED <<slMode, notSel>>

SelNext == CallSelect

(***************************************************************************)
(* playbackOptions and playblast                                           *)
(***************************************************************************)
\* float(x) and int(x) of a number or a bool; anything else raises.
float(x) ==
  CASE x.t = "num" -> Ok(x)
    [] x.t = "bool" -> Ok(NumV(IF x.v THEN 1 ELSE 0))
    [] OTHER -> Raise("TypeError")
int(x) == float(x)
bool(x) == Ok(BoolV(Truthy(x)))

\* str.upper()
LowerSeq == <<"a","b","c","d","e","f","g","h","i","j","k","l","m",
              "n","o","p","q","r","s","t","u","v","w","x","y","z">>
UpperSeq == <<"A","B","C","D","E","F","G","H","I","J","K","L","M",
              "N","O","P","Q","R","S","T","U","V","W","X","Y","Z">>
upperChar(c) ==
  IF c \in Lower THEN UpperSeq[CHOOSE i \in DOMAIN LowerSeq : LowerSeq[i] = c]
  ELSE c
upper(s) == [i \in DOMAIN s |-> upperChar(s[i])]

\* The options of playbackOptions, in the order in which they are set, and
\* the short name of each.
PlaybackOptionNames ==
  <<"animationStartTime", "animationEndTime", "minTime", "maxTime",
    "framesPerSecond", "frameStep", "audioScrubbing", "audioMuted",
    "avSync", "frameDropping">>
PlaybackOptionSet == Range(PlaybackOptionNames)
NoOptions == [n \in PlaybackOptionSet |-> NoneV]
OneOption(name, value) == [NoOptions EXCEPT ![name] = value]
\* parseArgs(long, short, None) of every option
effectiveOptions(long, short) ==
  [n \in PlaybackOptionSet |-> parseArgs(<<long[n], short[n], NoneV>>, <<>>)]

\* query=True: the first option that is given decides what is returned.
playbackQuery(sc, o) ==
  IF Truthy(o.animationStartTime) \/ Truthy(o.minTime) THEN Ok(sc.frame_start)
  ELSE IF Truthy(o.animationEndTime) \/ Truthy(o.maxTime) THEN Ok(sc.frame_end)
  ELSE IF Truthy(o.framesPerSecond) THEN Ok(sc.fps)
  ELSE IF Truthy(o.frameStep) THEN Ok(sc.frame_step)
  ELSE IF Truthy(o.audioScrubbing) THEN Ok(sc.use_audio_scrub)
  ELSE IF Truthy(o.audioMuted) THEN Ok(sc.use_audio)
  ELSE IF Truthy(o.avSync) THEN Ok(sc.use_audio_sync)
  ELSE IF Truthy(o.frameDropping) THEN Ok(sc.use_frame_drop)
  ELSE Raise("RuntimeError")

\* The value one option's assignment stores, and the scene with it stored.
optionValue(o, name) ==
  CASE name = "animationStartTime" -> float(o.animationStartTime)
    [] name = "animationEndTime" -> float(o.animationStartTime)
    [] name = "minTime" -> float(o.minTime)
    [] name = "maxTime" -> float(o.maxTime)
    [] name = "framesPerSecond" -> float(o.framesPerSecond)
    [] name = "frameStep" -> int(o.frameStep)
    [] name = "audioScrubbing" -> bool(o.audioScrubbing)
    [] name = "audioMuted" -> bool(o.audioMuted)
    [] name = "avSync" -> bool(o.avSync)
    [] OTHER -> bool(o.frameDropping)
optionStored(sc, name, value) ==
  CASE name \in {"animationStartTime", "minTime"} -> [sc EXCEPT !.frame_start = value]
    [] name \in {"animationEndTime", "maxTime"} -> [sc EXCEPT !.frame_end = value]
    [] name = "framesPerSecond" -> [sc EXCEPT !.fps = value, !.fps_base = NumV(1)]
    [] name = "frameStep" -> [sc EXCEPT !.frame_step = value]
    [] name = "audioScrubbing" -> [sc EXCEPT !.use_audio_scrub = value]
    [] name = "audioMuted" -> [sc EXCEPT !.use_audio = value]
    [] name = "avSync" -> [sc EXCEPT !.use_audio_sync = value]
    [] OTHER -> [sc EXCEPT !.use_frame_drop = value]

\* The assignments of the options that are not None, one after the other; an
\* exception leaves the earlier assignments in place.
RECURSIVE playbackSet(_, _, _)
playbackSet(sc, o, names) ==
  IF names = <<>> THEN Got(sc, Ok(NoneV))
  ELSE IF o[Head(names)] = NoneV THEN playbackSet(sc, o, Tail(names))
  ELSE IF optionValue(o, Head(names)).k # "ok"
       THEN Got(sc, optionValue(o, Head(names)))
       ELSE playbackSet(optionStored(sc, Head(names), optionValue(o, Head(names)).val),
                        o, Tail(names))

playbackEffective(sc, o, query) ==
  IF Truthy(query) THEN Got(sc, playbackQuery(sc, o))
  ELSE playbackSet(sc, o, PlaybackOptionNames)

\* playbackOptions(<long names>, <short names>, query=)
playbackOptions(sc, long, short, query) ==
  playbackEffective(sc, effectiveOptions(long, short),
                    parseArgs(<<query, NoneV, BoolV(FALSE)>>, <<>>))

\* CONSTANTS.renderFormats
renderFormats ==
  {<<"B","M","P">>,
   <<"I","R","I","S">>,
   <<"P","N","G">>,
   <<"J","P","E","G">>,
   <<"J","P","E","G","2","0","0","0">>,
   <<"T","A","R","G","A">>,
   <<"T","A","R","G","A","_","R","A","W">>,
   <<"C","I","N","E","O","N">>,
   <<"D","P","X">>,
   <<"O","P","E","N","_","E","X","R","_","M","U","L","T","I","L","A","Y","E","R">>,
   <<"O","P","E","N","_","E","X","R">>,
   <<"H","D","R">>,
   <<"T","I","F","F">>,
   <<"A","V","I","_","J","P","E","G">>,
   <<"A","V","I","_","R","A","W">>,
   <<"F","R","A","M","E","S","E","R","V","E","R">>,
   <<"H","2","6","4">>,
   <<"F","F","M","P","E","G">>,
   <<"T","H","E","O","R","A">>,
   <<"X","V","I","D">>}

\* The arguments of playblast that the model passes; every other one is None.
NoPlayblastArgs ==
  [camera |-> NoneV, c |-> NoneV, startTime |-> NoneV, st |-> NoneV,
   endTime |-> NoneV, et |-> NoneV, format |-> NoneV, fmt |-> NoneV,
   forceOverwrite |-> NoneV, fo |-> NoneV, height |-> NoneV, h |-> NoneV,
   width |-> NoneV, w |-> NoneV, restoreSettings |-> NoneV, rs |-> NoneV]

\* "Apply Settings": each effective value that is given is written to the scene.
applyCamera(sc, camera) ==
  IF Truthy(camera) THEN [sc EXCEPT !.camera = asObject(camera)] ELSE sc
applyStartTime(sc, startTime) ==
  IF startTime # NoneV
  THEN playbackOptions(sc, NoOptions, OneOption("minTime", startTime), NoneV).sc
  ELSE sc
applyEndTime(sc, endTime) ==
  IF endTime # NoneV
  THEN playbackOptions(sc, NoOptions, OneOption("maxTime", endTime), NoneV).sc
  ELSE sc
applyFormat(sc, format) ==
  IF Truthy(format) THEN [sc EXCEPT !.file_format = format] ELSE sc
applyOverwrite(sc, forceOverwrite) ==
  IF forceOverwrite # NoneV
  THEN [sc EXCEPT !.use_overwrite = BoolV(Truthy(forceOverwrite))] ELSE sc
applyWidth(sc, width) ==
  IF width # NoneV THEN [sc EXCEPT !.resolution_x = width] ELSE sc
applyHeight(sc, height) ==
  IF height # NoneV THEN [sc EXCEPT !.resolution_y = height] ELSE sc
applySettings(sc, camera, startTime, endTime, format, forceOverwrite, width, height) ==
  applyHeight(applyWidth(applyOverwrite(applyFormat(applyEndTime(applyStartTime(
    applyCamera(sc, camera), startTime), endTime), format), forceOverwrite),
    width), height)

\* "Restore Settings": the values stored before the settings were applied.
restoreSettings(sc, settings) ==
  [applyEndTime(applyStartTime(sc, settings.frame_start), settings.frame_end)
     EXCEPT !.camera = settings.camera,
            !.file_format = settings.file_format,
            !.use_overwrite = settings.use_overwrite,
            !.resolution_x = settings.resolution_x,
            !.resolution_y = settings.resolution_y,
            !.filepath = settings.filepath]

\* What playblast hands back: the scene, the settings the render ran with and
\* the outcome.
Played(sc, rendered, out) == [sc |-> sc, rendered |-> rendered, out |-> out]
\* bpy.ops.render.opengl(animation=True), then the restore
rendered(sc, applied, restore) ==
  Played(IF Truthy(restore) THEN restoreSettings(applied, sc) ELSE applied,
         applied, Ok(NoneV))

\* The effective format: parseArgs(format, fmt, <the scene's>).upper()
playblastFormat(sc, a) ==
  StrV(upper(parseArgs(<<a.format, a.fmt, sc.file_format>>, <<>>).v))

\* playblast(camera=, startTime=, endTime=, format=, forceOverwrite=, height=,
\*           width=, restoreSettings=)
playblast(sc, a) ==
  IF playblastFormat(sc, a).v \notin renderFormats
  THEN Played(sc, NoneV, Raise("RuntimeError"))
  ELSE rendered(sc,
         applySettings(sc,
           parseArgs(<<a.camera, a.c, sc.camera>>, <<>>),
           parseArgs(<<a.startTime, a.st,
                       playbackOptions(sc, NoOptions,
                         OneOption("minTime", BoolV(TRUE)), BoolV(TRUE)).out.val>>, <<>>),
           parseArgs(<<a.endTime, a.et,
                       playbackOptions(sc, NoOptions,
                         OneOption("maxTime", BoolV(TRUE)), BoolV(TRUE)).out.val>>, <<>>),
           playblastFormat(sc, a),
           parseArgs(<<a.forceOverwrite, a.fo, sc.use_overwrite>>, <<>>),
           parseArgs(<<a.width, a.w, sc.resolution_y>>, <<>>),
           parseArgs(<<a.height, a.h, sc.resolution_x>>, <<>>)),
         parseArgs(<<a.restoreSettings, a.rs, BoolV(TRUE)>>, <<>>))

Png == <<"P","N","G">>
jpeg == <<"j","p","e","g">>
gif == <<"g","i","f">>
\* The scenes the calls start from.
InitialScenes ==
  [camera : {NoneV, ObjV(CameraName)},
   frame_start : {NumV(1)}, frame_end : {NumV(2)},
   file_format : {StrV(Png)}, use_overwrite : {BoolV(TRUE), BoolV(FALSE)},
   resolution_x : {NumV(1), NumV(2)}, resolution_y : {NumV(1), NumV(2)},
   filepath : {StrV(<<"/">>)},
   fps : {NumV(24)}, fps_base : {NumV(1)}, frame_step : {NumV(1)},
   use_audio_scrub : {BoolV(FALSE)}, use_audio : {BoolV(FALSE)},
   use_audio_sync : {BoolV(FALSE)}, use_frame_drop : {BoolV(FALSE)}]

PlayblastInputs ==
  {[NoPlayblastArgs EXCEPT !.width = x[1], !.h = x[2], !.startTime = x[3],
                           !.fmt = x[4], !.rs = x[5], !.c = x[6]] :
     x \in {NoneV, NumV(3)} \X {NoneV, NumV(4)} \X {NoneV, NumV(2)}
           \X {NoneV, StrV(jpeg), StrV(gif)} \X {NoneV, BoolV(FALSE)}
           \X {NoneV, ObjV(CameraName)}}
\* the values an option is set to
OptionValues(name) ==
  IF name \in {"audioScrubbing", "audioMuted", "avSync", "frameDropping"}
  THEN {BoolV(TRUE), BoolV(FALSE)}
  ELSE {NumV(2), NumV(3)}

NoSceneCall == [op |-> "none", option |-> "none", value |-> NoneV, args |-> NoPlayblastArgs]
ScnInit ==
  /\ scScene \in InitialScenes
  /\ scRendered = NoneV
  /\ scCall = NoSceneCall
  /\ scBefore = scScene
  /\ scOut = Unset
  /\ scCount = 0
ScnIdle ==
  /\ scScene = NoneV /\ scRendered = NoneV /\ scCall = NoSceneCall
  /\ scBefore = NoneV /\ scOut = Unset /\ scCount = 0

\* playblast(...)
CallPlayblast ==
  /\ scCount < MaxCalls
  /\ \E a \in PlayblastInputs :
       \E r \in {playblast(scScene, a)} :
         /\ scScene' = r.sc
         /\ scRendered' = r.rendered
         /\ scOut' = r.out
         /\ scCall' = [NoSceneCall EXCEPT !.op = "playblast", !.args = a]
  /\ scBefore' = scScene
  /\ scCount' = scCount + 1
  /\ UNCHANGED notScn

\* playbackOptions(X=v), under the long or the short name of X
CallPlaybackSet ==
  /\ scCount < MaxCalls
  /\ \E name \in PlaybackOptionSet, short \in BOOLEAN :
       \E v \in OptionValues(name) :
         \E r \in {playbackOptions(scScene,
                     IF short THEN NoOptions ELSE OneOption(name, v),
                     IF short THEN OneOption(name, v) ELSE NoOptions, NoneV)} :
           /\ scScene' = r.sc
           /\ scOut' = r.out
           /\ scCall' = [NoSceneCall EXCEPT !.op = "set", !.option = name, !.value = v]
  /\ scBefore' = scScene
  /\ scCount' = scCount + 1
  /\ UNCHANGED <<scRendered, notScn>>

\* playbackOptions(X=True, query=True)
CallPlaybackQuery ==
  /\ scCount < MaxCalls
  /\ \E name \in PlaybackOptionSet :
       \E r \in {playbackOptions(scScene, OneOption(name, BoolV(TRUE)),
                                 NoOptions, BoolV(TRUE))} :
         /\ scScene' = r.sc
         /\ scOut' = r.out
         /\ scCall' = [NoSceneCall EXCEPT !.op = "query", !.option = name]
  /\ scBefore' = scScene
  /\ scCount' = scCount + 1
  /\ UNCHANGED <<scRendered, notScn>>

ScnNext == CallPlayblast \/ CallPlaybackSet \/ CallPlaybackQuery

(***************************************************************************)
(* AbstractBaseMixin: parents and children                                 *)
(***************************************************************************)
MaxMoves == 3
\* A RootItem and two TextItems; the parent of an item without one is None.
Items == {"root", "a", "b"}
NoItem == "None"

\* The items: __parent, __children and _internalMove of each, and the
\* interpreter they run under.
Tree(py, parent, children, move) ==
  [py |-> py, parent |-> parent, children |-> children, move |-> move]
\* What a method hands back: the items and its outcome.
Did(tr, out) == [tr |-> tr, out |-> out]
True == Ok(BoolV(TRUE))
False == Ok(BoolV(FALSE))

\* "with item.internalCallback:" sets item._internalMove on entering and
\* clears it on leaving, also when the body raises.
entered(tr, item) == [tr EXCEPT !.move[item] = TRUE]
left(r, item) == Did([r.tr EXCEPT !.move[item] = FALSE], r.out)

\* __validateItem(item)
validateItem(tr, self, item) ==
  item \in Items /\ item \notin Range(tr.children[self])

\* list.pop(pos) and the item it removes; pos may count from the end.
popIndex(children, pos) == IF pos < 0 THEN Len(children) + pos + 1 ELSE pos + 1
popped(children, pos) ==
  [i \in 1..(Len(children) - 1) |->
     IF i < popIndex(children, pos) THEN children[i] ELSE children[i + 1]]

appended(tr, self, child) ==
  [tr EXCEPT !.children[self] = Append(tr.children[self], child)]
withParent(tr, self, parent) == [tr EXCEPT !.parent[self] = parent]
withoutChild(tr, self, pos) ==
  [tr EXCEPT !.children[self] = popped(tr.children[self], pos)]

\* "-maxIndex <= pos <= maxIndex" with something that is not a number as pos:
\* Python 3 raises TypeError; Python 2 orders every number before every other
\* object, so the test fails and removeChild raises IndexError.
notANumber(tr) == IF tr.py = 3 THEN Raise("TypeError") ELSE Raise("IndexError")

\* The result of parent.addChild(self) inside setParent.
adopted(r, self, parent) ==
  IF r.out = True THEN Did(withParent(r.tr, self, parent), True)
  ELSE Did(r.tr, False)

RECURSIVE setParent(_, _, _)
RECURSIVE addChild(_, _, _)
RECURSIVE removeChild(_, _, _)

\* self.setParent(parent)
setParent(tr, self, parent) ==
  IF tr.parent[self] = parent THEN Did(tr, False)
  ELSE IF parent = NoItem
       THEN IF ~tr.move[self]
            THEN Did(removeChild(withParent(tr, self, NoItem),
                                 tr.parent[self], ObjV(self)).tr,
                     IF removeChild(withParent(tr, self, NoItem),
                                    tr.parent[self], ObjV(self)).out.k = "ok"
                     THEN True
                     ELSE removeChild(withParent(tr, self, NoItem),
                                      tr.parent[self], ObjV(self)).out)
            ELSE Did(withParent(tr, self, NoItem), True)
  ELSE IF tr.move[self] THEN Did(withParent(tr, self, parent), True)
  ELSE left(adopted(addChild(entered(tr, parent), parent, self), self, parent),
            parent)

\* self.addChild(child)
addChild(tr, self, child) ==
  IF ~validateItem(tr, self, child) THEN Did(tr, False)
  ELSE IF ~tr.move[self]
       THEN left(setParent(entered(appended(tr, self, child), child), child, self),
                 child)
       ELSE Did(appended(tr, self, child), True)

\* The child at a position that is in range is popped and, outside an
\* internal move, told to drop its parent.
removeAt(tr, self, pos) ==
  IF ~(-(Len(tr.children[self]) - 1) <= pos /\ pos <= Len(tr.children[self]) - 1)
  THEN Did(tr, Raise("IndexError"))
  ELSE IF ~tr.move[self]
       THEN Did(left(setParent(entered(withoutChild(tr, self, pos),
                                       tr.children[self][popIndex(tr.children[self], pos)]),
                               tr.children[self][popIndex(tr.children[self], pos)],
                               NoItem),
                     tr.children[self][popIndex(tr.children[self], pos)]).tr,
                Ok(NoneV))
       ELSE Did(withoutChild(tr, self, pos), Ok(NoneV))

\* self.removeChild(pos): pos is a Python value, a number or an item
removeChild(tr, self, pos) ==
  IF pos.t # "num" THEN Did(tr, notANumber(tr)) ELSE removeAt(tr, self, pos.v)

TheTree == Tree(trPython, trParent, trChildren, trMove)
NoTreeCall == [op |-> "none", self |-> NoItem, arg |-> NoItem, pos |-> 0]
Family(parent, children) == [parent |-> parent, children |-> children]

\* Newly made items: no parent, no children.
TreeInit ==
  /\ trPython \in {2, 3}
  /\ trParent = [i \in Items |-> NoItem]
  /\ trChildren = [i \in Items |-> <<>>]
  /\ trMove = [i \in Items |-> FALSE]
  /\ trCall = NoTreeCall
  /\ trBefore = Family(trParent, trChildren)
  /\ trOut = Unset
  /\ trCount = 0
TreeIdle ==
  /\ trPython = 3 /\ trParent = EmptyDict /\ trChildren = EmptyDict
  /\ trMove = EmptyDict /\ trCall = NoTreeCall
  /\ trBefore = Family(EmptyDict, EmptyDict) /\ trOut = Unset /\ trCount = 0

Done(op, self, arg, pos, r) ==
  /\ trParent' = r.tr.parent
  /\ trChildren' = r.tr.children
  /\ trMove' = r.tr.move
  /\ trOut' = r.out
  /\ trCall' = [op |-> op, self |-> self, arg |-> arg, pos |-> pos]
  /\ trBefore' = Family(trParent, trChildren)
  /\ trCount' = trCount + 1
  /\ UNCHANGED <<trPython, notTree>>

\* item.setParent(parent), parent an item or None
CallSetParent ==
  /\ trCount < MaxMoves
  /\ \E self \in Items, parent \in Items \cup {NoItem} :
       \E r \in {setParent(TheTree, self, parent)} :
         Done("setParent", self, parent, 0, r)

\* item.addChild(child)
CallAddChild ==
  /\ trCount < MaxMoves
  /\ \E self \in Items, child \in Items :
       \E r \in {addChild(TheTree, self, child)} :
         Done("addChild", self, child, 0, r)

\* item.removeChild(pos)
CallRemoveChild ==
  /\ trCount < MaxMoves
  /\ \E self \in Items, pos \in {-1, 0, 1} :
       \E r \in {removeChild(TheTree, self, NumV(pos))} :
         Done("removeChild", self, NoItem, pos, r)

TreeNext == CallSetParent \/ CallAddChild \/ CallRemoveChild

RestIdle == SelIdle /\ ScnIdle /\ TreeIdle

InitNames == NamesInit /\ ArgsIdle /\ ConIdle /\ BatIdle /\ KeyIdle /\ RestIdle
SpecNames == InitNames /\ [][NamesNext]_vars

InitArgs == ArgsInit /\ ConIdle /\ NamesIdle /\ BatIdle /\ KeyIdle /\ RestIdle
SpecArgs == InitArgs /\ [][ArgsNext]_vars

InitCon == ConInit /\ ArgsIdle /\ NamesIdle /\ BatIdle /\ KeyIdle /\ RestIdle
SpecCon == InitCon /\ [][ConNext]_vars

InitBatch == BatInit /\ NamesIdle /\ ArgsIdle /\ ConIdle /\ KeyIdle /\ RestIdle
SpecBatch == InitBatch /\ [][BatNext]_vars
\* The calling thread and every worker keep running while they can take a step.
BatchMain == BatchPut \/ BatchJoin \/ BatchMerge \/ BatchReturn
ThreadRun(t) ==
  /\ t \in Threads
  /\ ThreadLoop(t) \/ ThreadGet(t) \/ ThreadStore(t) \/ ThreadCall(t) \/ ThreadTaskDone(t)
FairBatch ==
  /\ WF_vars(BatchMain)
  /\ \A t \in 1..Max(MaxItems, 2) : WF_vars(ThreadRun(t))
SpecBatchFair == InitBatch /\ [][BatNext]_vars /\ FairBatch

InitKeys == KeyInit /\ NamesIdle /\ ArgsIdle /\ ConIdle /\ BatIdle /\ RestIdle
SpecKeys == InitKeys /\ [][KeyNext]_vars

OldIdle == NamesIdle /\ ArgsIdle /\ ConIdle /\ BatIdle /\ KeyIdle
InitSelect == SelInit /\ OldIdle /\ ScnIdle /\ TreeIdle
SpecSelect == InitSelect /\ [][SelNext]_vars

InitScene == ScnInit /\ OldIdle /\ SelIdle /\ TreeIdle
SpecScene == InitScene /\ [][ScnNext]_vars

InitScale == ScaleInit /\ NamesIdle /\ ArgsIdle /\ ConIdle /\ BatIdle /\ RestIdle
SpecScale == InitScale /\ [][ScaleNext]_vars

InitTree == TreeInit /\ OldIdle /\ SelIdle /\ ScnIdle
SpecTree == InitTree /\ [][TreeNext]_vars

(***************************************************************************)
(* Properties                                                              *)
(***************************************************************************)
IsCleanName(s) == s # <<>> /\ \A i \in 1..Len(s) : IsAttrChar(s[i])
ResolvedName == nmOp = "resolve" /\ nmObject = NoneV /\ nmAttribute.t = "str"

IsPropertyName(s) ==
  /\ s # <<>> /\ s[1] \in Lower \cup Upper /\ s[Len(s)] \in Lower \cup Upper
  /\ \A i \in 1..Len(s) : IsAttrChar(s[i]) \/ s[i] = " "

WithoutChannel(s) ==
  IF s # <<>> /\ s[Len(s)] \in DOMAIN attributeIndices
  THEN TupleV(StrV(SubSeq(s, 1, Len(s) - 1)), NumV(attributeIndices[s[Len(s)]]))
  ELSE TupleV(StrV(s), NoneV)

\* C7: getAttributeIndex(attribute) returns (the attribute name without its
\* trailing channel letter, the index of that letter or None): as documented,
\* translateX gives (translate, 0), colorG gives (color, 1) and prop gives
\* (prop, None); a non-string raises RuntimeError.
C7_NameAndChannelIndex ==
  nmOp = "index" =>
    IF nmAttribute.t # "str" THEN nmOut = Raise("RuntimeError")
    ELSE nmAttribute.v \in {TranslateX, ColorG, Prop}
           => nmOut = Ok(WithoutChannel(nmAttribute.v))

\* C8: parseObjectAttribute returns a 2-tuple or raises RuntimeError, and
\* nothing else: RuntimeError when both arguments are empty and when a list
\* does not have two elements, (None, None) for a string without '.'.
C8_TupleOrRuntimeError ==
  (nmOp = "parse" /\ nmAttribute.t \in {"str", "None"}) =>
    /\ nmOut.k \in {"ok", "RuntimeError"}
    /\ nmOut.k = "ok" => (nmOut.val.t = "list" /\ Len(nmOut.val.v) = 2)
    /\ (~Truthy(nmObject) /\ ~Truthy(nmAttribute)) => nmOut = Raise("RuntimeError")
    /\ (nmObject.t = "list" /\ Len(nmObject.v) # 2 /\ ~Truthy(nmAttribute))
         => nmOut = Raise("RuntimeError")
    /\ (nmObject.t = "str" /\ ~Contains(nmObject.v, ".") /\ ~Truthy(nmAttribute)
        /\ Truthy(nmObject)) => nmOut = Ok(TupleV(NoneV, NoneV))

C10_InfluenceIsWeight ==
  \A i \in 1..Len(conMade) :
    conMade[i].influence =
      (IF conCall.weight # NoneV THEN conCall.weight.v
       ELSE IF conCall.w # NoneV THEN conCall.w.v
       ELSE DefaultInfluence)

\* The batches and the result as the documentation of batch gives them:
\* batch i is items[i*b:(i+1)*b] with b = max(batchSize, 1).
DocBatchSize == Max(batSize, 1)
DocBatch(i) ==
  SubSeq(BatchItems, i * DocBatchSize + 1, Min((i + 1) * DocBatchSize, Len(BatchItems)))
RECURSIVE DocResults(_)
DocResults(i) ==
  IF i * DocBatchSize >= Len(BatchItems) THEN <<>>
  ELSE FunctionResult(batFunction, DocBatch(i)) \o DocResults(i + 1)

\* C1: batch returns function(batch_0) + function(batch_1) + ... in increasing
\* batch index, whichever worker handled which batch; function is called at
\* most once for a batch, exactly once for every batch when batch returns,
\* and with a function that does not raise the call is never stuck before it
\* returns.
C1_BatchConcatenation ==
  /\ \A i \in DOMAIN batCalls : batCalls[i] <= 1
  /\ batMain = "done" =>
       /\ batOut = Ok(ListV(DocResults(0)))
       /\ \A i \in DOMAIN batCalls : batCalls[i] = 1
  /\ (batFunction = "reversed" /\ batMain \in {"put", "join", "merge"}) => ENABLED BatNext

\* batch has returned after the second worker handled both batches, including
\* the first one, which holds two items.
C1_Witness ==
  /\ batMain = "done"
  /\ batOut.k = "ok"
  /\ NumBatches = 2
  /\ Len(Batches[0]) = 2
  /\ DOMAIN batThreads[2].data = {0, 1}

\* The key functions as their documentation states them.
\* the keys a keyInfo list holds, and the keys of a curve
ItemKeys(keyInfo) == {<<keyInfo[i].key.curve, keyInfo[i].co>> : i \in 1..Len(keyInfo)}
CurveKeys(curve) == {<<curve, co>> : co \in kyPoints[curve.v]}
BufferItems ==
  UNION {{e[i] : i \in 1..Len(e)} : e \in SeqToSet(bufferEntries(COPY_KEY_BUFFER))}
\* the attributes a call on the object asked for, and the curve of one
RequestedAttributes ==
  IF kyCall.attribute = NoneV THEN listAttrResults(Cube) ELSE asList(kyCall.attribute)
CurveOf(attribute) == getFCurve(TheScene, Cube, attribute, FALSE, FALSE).out.val

\* C2: after cutKey every key that was copied into the buffer is gone from
\* the keyframe points of its curve, and copyKey leaves every curve as it was.
C2_CutRemovesCopiedKeys ==
  /\ (kyCall.op = "cutKey" /\ kyCall.out.k = "ok") =>
       \A item \in BufferItems : item.key.co \notin kyPoints[item.key.curve.v]
  /\ kyCall.op = "copyKey" => kyPoints = kyBefore.points

\* C3: after copyKey the buffer is the returned dictionary, with an entry
\* for every FCurve that was passed and for every requested attribute of the
\* object that has a curve, each entry listing exactly the keys of its curve.
C3_BufferHasDocumentedFormat ==
  (kyCall.op = "copyKey" /\ kyCall.out.k = "ok") =>
    /\ COPY_KEY_BUFFER = kyCall.out.val
    /\ \A curve \in SeqToSet(curvesOf(kyCall.objects)) :
         /\ dictHas(COPY_KEY_BUFFER.curves, curve)
         /\ ItemKeys(dictGet(COPY_KEY_BUFFER.curves, curve)) = CurveKeys(curve)
    /\ kyCall.objects = Cube =>
         \A attribute \in SeqToSet(RequestedAttributes) :
           isFCurve(CurveOf(attribute)) =>
             /\ dictHas(COPY_KEY_BUFFER.data, Cube)
             /\ dictHas(dictGet(COPY_KEY_BUFFER.data, Cube), attribute)
             /\ ItemKeys(dictGet(dictGet(COPY_KEY_BUFFER.data, Cube), attribute))
                  = CurveKeys(CurveOf(attribute))

\* the targets of the last call, in the order pasteKey takes them
PasteTargets ==
  IF kyCall.objects = Cube
  THEN [i \in 1..Len(RequestedAttributes) |-> CurveOf(RequestedAttributes[i])]
  ELSE curvesOf(kyCall.objects)

\* C4: after pasteKey the i-th target holds the keys of the i-th buffer
\* entry, for curve targets and for object/attribute targets alike, and a
\* target beyond the last entry is as it was.
C4_PasteByPosition ==
  (kyCall.op = "pasteKey" /\ kyCall.attribute # NoneV /\ COPY_KEY_BUFFER.t = "dict") =>
    \A i \in 1..Len(PasteTargets) :
         IF i <= Len(bufferEntries(COPY_KEY_BUFFER))
         THEN \A k \in 1..Len(bufferEntries(COPY_KEY_BUFFER)[i]) :
                /\ isFCurve(PasteTargets[i])
                /\ bufferEntries(COPY_KEY_BUFFER)[i][k].co \in kyPoints[PasteTargets[i].v]
         ELSE isFCurve(PasteTargets[i]) =>
                kyPoints[PasteTargets[i].v] = kyBefore.points[PasteTargets[i].v]

\* C5: bakeSimulation leaves the key buffer as it was before the call, also
\* when it cut the keys of a curve: keys that were copied before are still
\* the contents of the buffer when it returns.
C5_BakeKeepsBuffer ==
  (/\ kyCall.op = "bakeSimulation"
   /\ kyCall.out.k = "ok"
   /\ \E e \in SeqToSet(bufferEntries(kyBefore.buffer)) : e # <<>>) =>
    COPY_KEY_BUFFER = kyBefore.buffer

\* The objects a call of select was given, as asObjects finds them.
GivenObjects == Range(asObjects(slCall.objects))
LastGiven == li(ListV(asObjects(slCall.objects)))

\* C11: after select(objects) with no flag exactly the given objects are
\* selected and the last given object is the active one; with add=True the
\* selected objects are the ones selected before and the given ones; with
\* deselect=True they are the ones selected before without the given ones.
C11_SelectReplaces ==
  /\ slCall.flag = "replace" =>
       /\ slSelected = GivenObjects
       /\ GivenObjects # {} => slActive = LastGiven
  /\ slCall.flag = "add" => slSelected = slBefore.selected \cup GivenObjects
  /\ slCall.flag = "deselect" => slSelected = slBefore.selected \ GivenObjects

\* The value an argument pair of the last playblast call passes, if any.
Passed(long, short) == parseArgs(<<scCall.args[long], scCall.args[short], NoneV>>, <<>>)

\* C12: a playblast call renders with the scene's own value of every setting
\* that is not passed: resolution_x and resolution_y when width and height
\* are not given, and likewise camera, frame range, format and overwrite.
C12_PlayblastUsesSceneSettings ==
  (scCall.op = "playblast" /\ scOut.k = "ok") =>
    /\ Passed("width", "w") = NoneV => scRendered.resolution_x = scBefore.resolution_x
    /\ Passed("height", "h") = NoneV => scRendered.resolution_y = scBefore.resolution_y
    /\ Passed("camera", "c") = NoneV => scRendered.camera = scBefore.camera
    /\ Passed("startTime", "st") = NoneV => scRendered.frame_start = scBefore.frame_start
    /\ Passed("endTime", "et") = NoneV => scRendered.frame_end = scBefore.frame_end
    /\ Passed("format", "fmt") = NoneV => scRendered.file_format = scBefore.file_format
    /\ Passed("forceOverwrite", "fo") = NoneV => scRendered.use_overwrite = scBefore.use_overwrite

\* C13: after playbackOptions(X=v) the query of X returns v, and a call with
\* query=True returns the scene's value and leaves every scene setting as it was.
C13_PlaybackRoundTrip ==
  /\ scCall.op = "set" =>
       /\ scOut.k = "ok"
       /\ playbackOptions(scScene, OneOption(scCall.option, BoolV(TRUE)),
                          NoOptions, BoolV(TRUE)).out = Ok(scCall.value)
  /\ scCall.op = "query" => scOut.k = "ok" /\ scScene = scBefore

\* C14: item.setParent(newParent) on an item whose parent is another one
\* returns True, takes the item out of the old parent's children, makes
\* newParent the item's parent and, unless newParent is None, puts the item
\* among newParent's children; with the current parent it returns False and
\* changes nothing.  The item, its old parent and the new one are distinct.
C14_SetParentMoves ==
  /\ (trCall.op = "setParent" /\ trBefore.parent[trCall.self] = trCall.arg) =>
       (trOut = False /\ Family(trParent, trChildren) = trBefore)
  /\ (/\ trCall.op = "setParent"
      /\ trBefore.parent[trCall.self] \notin {NoItem, trCall.arg, trCall.self}
      /\ trCall.arg # trCall.self
      /\ trCall.self \in Range(trBefore.children[trBefore.parent[trCall.self]])
      /\ trCall.arg # NoItem => trCall.self \notin Range(trBefore.children[trCall.arg]))
     => (/\ trOut = True
         /\ trCall.self \notin Range(trChildren[trBefore.parent[trCall.self]])
         /\ trParent[trCall.self] = trCall.arg
         /\ trCall.arg # NoItem => trCall.self \in Range(trChildren[trCall.arg]))

\* Whether the function raises for one of the batches of the call.
RaisesForSomeBatch ==
  \E i \in DOMAIN Batches : FunctionRaises(batFunction, asList(ListV(Batches[i])))

\* C15: when the function raises for some batch, the call of batch comes to
\* an end (it returns or raises) under every interleaving of the threads.
C15_BatchFailFast == RaisesForSomeBatch ~> (batMain = "done")

\* The curves a call of scaleKey was given that had keys before the call.
ScaledCurves ==
  {id \in DOMAIN kyBefore.points :
     /\ kyBefore.points[id] # {}
     /\ \/ CurveV(id) \in Range(curvesOf(kyCall.objects))
        \/ kyCall.objects = Cube /\ id = CurveX /\ kyCall.attribute = StrV(LocationX)}
Times(pts) == {q[1] : q \in pts}

\* C16: scaleKey with timeScale=s and timePivot=p returns and moves every key
\* from its time f to p + (f - p) * s, whether or not a new range is given as
\* well; with newStartTime and newEndTime alone the earliest key ends at
\* newStartTime and the latest at newEndTime.
C16_ScaleFromPivot ==
  (kyCall.op = "scaleKey" /\ ScaledCurves # {}) =>
    /\ kyCall.args.timeScale # NoneV =>
         /\ kyCall.out.k = "ok"
         /\ \A id \in ScaledCurves :
              Times(kyPoints[id]) =
                {kyCall.args.timePivot.v
                   + (f - kyCall.args.timePivot.v) * kyCall.args.timeScale.v :
                 f \in Times(kyBefore.points[id])}
    /\ (/\ kyCall.args.timeScale = NoneV
        /\ kyCall.args.newStartTime # NoneV
        /\ kyCall.args.newEndTime # NoneV) =>
         /\ kyCall.out.k = "ok"
         /\ \A id \in ScaledCurves :
              Cardinality(kyBefore.points[id]) > 1 =>
                /\ kyCall.args.newStartTime.v \in Times(kyPoints[id])
                /\ kyCall.args.newEndTime.v \in Times(kyPoints[id])
                /\ \A f \in Times(kyPoints[id]) :
                     kyCall.args.newStartTime.v <= f /\ f <= kyCall.args.newEndTime.v

====
